---- MODULE Spec2Model ----
(***************************************************************************)
(* A model of parts of the Slice compiler (slicec):                        *)
(*   - src/utils/file_util.rs      resolve_files_from and its helpers      *)
(*   - src/validators/operations.rs validate_operation and its helpers     *)
(*   - src/parsers/comments/mod.rs  construct_lint_from and clean_message  *)
(*   - slicec-cs/src/class_visitor.rs   the C# code emitted for a class    *)
(*   - slicec-cs/src/encoded_result.rs  the C# encoded-result struct       *)
(*   - the validation of the placement of streamed members                 *)
(* Each part has its own specification over the shared variables.          *)
(***************************************************************************)
EXTENDS Integers, Sequences, FiniteSets, TLC

VARIABLES
    options,        \* SliceOptions: [sources, references], lists of user-supplied paths
    file_paths,     \* resolve_files_from: the HashMap<FilePath, bool>
    files,          \* resolve_files_from: the Vec<SliceFile> being built
    operation,      \* validate_operation: the Operation being validated
    base_exception, \* Exception::base_exception of every exception (NoException: none)
    call,           \* is_documented_exception_compatible: the arguments, depth and result
    first_run,      \* validate_operation: what an earlier run on the operation reported
    parse_error,    \* construct_lint_from: the ParseError handed in
    classes,        \* class_visitor: the chain of classes, the root first
    wire,           \* what the emitted IceEncode wrote to the encoder
    frame,          \* the emitted method that runs, its class and the statement reached
    instance,       \* the fields the emitted IceDecode has set
    cs_operation,   \* encoded_result_struct: the operation handed in
    member_list,    \* the parameters or the return members under the stream checks
    returned,       \* the value the running function returned
    unparsed,       \* Deprecated::parse_from: the Unparsed attribute handed in
    custom_type,    \* the CustomType whose Type functions are called
    collected,      \* what the collector held when validate_operation was called
    diagnostics,    \* the Diagnostics collector (a list, in insertion order)
    pc              \* position of the running function

fileVars == <<options, file_paths, files>>
opVars == <<operation, base_exception, first_run>>
grammarVars == <<unparsed, custom_type, collected>>
genVars == <<parse_error, classes, wire, frame, instance, cs_operation, member_list, returned,
             grammarVars>>
vars == <<options, file_paths, files, operation, base_exception, first_run, call,
          parse_error, classes, wire, frame, instance, cs_operation, member_list, returned,
          unparsed, custom_type, collected, diagnostics, pc>>

(***************************************************************************)
(* Bounds                                                                  *)
(***************************************************************************)
\* The most paths in options.sources, and in options.references.
MaxPaths == 2

\* All sequences over S of length at most n.
SeqsUpTo(S, n) == UNION { [1..k -> S] : k \in 0..n }

(***************************************************************************)
(* The file system the compiler runs against.  A path is the sequence of   *)
(* its components; the working directory is the empty sequence.            *)
(*                                                                         *)
(*   a.slice      a Slice file                                             *)
(*   u.slice      a Slice file whose content cannot be read as a String    *)
(*   n.txt        a file that is not a Slice file                          *)
(*   d/           a directory                                              *)
(*   d/c.slice    a Slice file                                             *)
(*   d/r.txt      a file that is not a Slice file                          *)
(*   d/s/         an empty directory                                       *)
(***************************************************************************)
NotFound == <<"<not found>">>

FsKind(cp) ==
    CASE cp = <<>> -> "dir"
      [] cp = <<"a.slice">> -> "file"
      [] cp = <<"u.slice">> -> "file"
      [] cp = <<"n.txt">> -> "file"
      [] cp = <<"d">> -> "dir"
      [] cp = <<"d", "c.slice">> -> "file"
      [] cp = <<"d", "r.txt">> -> "file"
      [] cp = <<"d", "s">> -> "dir"
      [] OTHER -> "none"

\* The entries read_dir yields for a directory.
DirEntries(cp) ==
    CASE cp = <<>> -> <<"a.slice", "u.slice", "n.txt", "d">>
      [] cp = <<"d">> -> <<"c.slice", "r.txt", "s">>
      [] OTHER -> <<>>

\* Whether read_dir succeeds on a directory.
ReadDirOk(cp) == FsKind(cp) = "dir"

\* Whether fs::read_to_string succeeds on a file.
ReadToStringOk(cp) == FsKind(cp) = "file" /\ cp # <<"u.slice">>

\* The paths a user may pass on the command line.
UserPaths ==
    { <<"a.slice">>, <<"d", "..", "a.slice">>, <<"u.slice">>, <<"n.txt">>,
      <<"gone.slice">>, <<"d">>, <<"d", "c.slice">> }

\* Path::extension of a file name.
Extension(name) ==
    CASE name \in {"a.slice", "u.slice", "c.slice", "gone.slice"} -> "slice"
      [] name \in {"n.txt", "r.txt"} -> "txt"
      [] OTHER -> ""

(***************************************************************************)
(* std::path                                                               *)
(***************************************************************************)
RECURSIVE Walk(_, _)
Walk(cur, rest) ==
    IF rest = <<>> THEN cur
    ELSE IF FsKind(cur) # "dir" THEN NotFound
    ELSE LET c == Head(rest) IN
         IF c = "." THEN Walk(cur, Tail(rest))
         ELSE IF c = ".."
              THEN Walk(IF cur = <<>> THEN <<>> ELSE SubSeq(cur, 1, Len(cur) - 1), Tail(rest))
         ELSE IF FsKind(Append(cur, c)) = "none" THEN NotFound
         ELSE Walk(Append(cur, c), Tail(rest))

\* PathBuf::canonicalize: the absolute form of the path with every "." and
\* ".." resolved, or NotFound (an Err) when the path does not exist.
canonicalize(path) == Walk(<<>>, path)

exists(path) == canonicalize(path) # NotFound
is_file(path) == exists(path) /\ FsKind(canonicalize(path)) = "file"
is_dir(path) == exists(path) /\ FsKind(canonicalize(path)) = "dir"

is_slice_file(path) ==
    /\ path # <<>>
    /\ Extension(path[Len(path)]) = "slice"

(***************************************************************************)
(* Diagnostics                                                             *)
(***************************************************************************)
IOError(path, error) ==
    [severity |-> "Error", code |-> "IO", action |-> "read", path |-> path, error |-> error]

DuplicateFile(path) ==
    [severity |-> "Lint", code |-> "DuplicateFile", action |-> "", path |-> path, error |-> ""]

(***************************************************************************)
(* grammar: operations, doc comments and exceptions                        *)
(***************************************************************************)
\* The most entries in an operation's exception specification.
MaxThrows == 2
\* The most tags (param, returns and throws together) in a doc comment.
MaxTags == 2
\* The most exceptions in a hierarchy handed to is_documented_exception_compatible.
NumExceptions == 4

\* Option::None for an exception (no base, or a tag whose type does not resolve).
NoException == 0
\* Option::None for the identifier of a returns tag.
NoIdentifier == "<none>"

CompilationModes == {"Slice1", "Slice2"}

\* The exceptions declared beside the operation under validation:
\* E3 : E2, E2 : E1, and E4 with no base.
DeclaredExceptions == 1..4
DeclaredBase == [e \in DeclaredExceptions |-> IF e \in {2, 3} THEN e - 1 ELSE NoException]

\* Every hierarchy over 1..NumExceptions: each exception has at most one base,
\* declared before it.
Hierarchies ==
    { b \in [1..NumExceptions -> 0..NumExceptions] : \A e \in 1..NumExceptions : b[e] < e }

ParameterLists == { <<>>, <<"p">> }
\* No return type, a single return type (its member is named returnValue) or
\* a return tuple.
ReturnMemberLists == { <<>>, <<"returnValue">>, <<"r1", "r2">> }

ParamTags == [identifier : {"p", "q"}]
ReturnsTags == [identifier : {NoIdentifier, "r1", "returnValue"}]
\* thrown_type() of a throws tag is Ok(exception) or an Err (NoException).
ThrowsTags == [thrown_type : DeclaredExceptions \cup {NoException}]

NoComment == [present |-> FALSE, params |-> <<>>, returns |-> <<>>, throws |-> <<>>]
Comments ==
    { NoComment } \cup
    { c \in [present : {TRUE},
             params : SeqsUpTo(ParamTags, MaxTags),
             returns : SeqsUpTo(ReturnsTags, MaxTags),
             throws : SeqsUpTo(ThrowsTags, MaxTags)] :
        Len(c.params) + Len(c.returns) + Len(c.throws) <= MaxTags }

Operations ==
    [encoding : CompilationModes,
     parameters : ParameterLists,
     return_members : ReturnMemberLists,
     exception_specification : SeqsUpTo(DeclaredExceptions, MaxThrows),
     comment : Comments]

NoOperation ==
    [encoding |-> "Slice2", parameters |-> <<>>, return_members |-> <<>>,
     exception_specification |-> <<>>, comment |-> NoComment]

NoCall == [thrown |-> 1, documented |-> 1, current |-> 1, depth |-> 0, result |-> FALSE]

\* Operation::parser_scoped_identifier and Operation::identifier.
parser_scoped_identifier == "Test::I::op"
identifier == "op"

\* Spans: what the span covers, and the first and last position covered.
Span(of, start, end) == [of |-> of, start |-> start, end |-> end]
NoSpan == Span("none", 0, 0)
OperationSpan == Span("operation", 1, 1)

Note(message, span) == [message |-> message, span |-> span]

\* Diagnostic::new(..).set_span(..).set_scope(..).add_note(..)
Diagnostic(severity, code, message, about, span, notes) ==
    [severity |-> severity, code |-> code, message |-> message, about |-> about,
     span |-> span, scope |-> parser_scoped_identifier, notes |-> notes]

\* The lint built with the severity of an error.
IncorrectDocCommentAsError(message, about, span, notes) ==
    Diagnostic("Error", "IncorrectDocComment", message, about, span, notes)

IncorrectDocComment(message, about, span, notes) ==
    Diagnostic("Lint", "IncorrectDocComment", message, about, span, notes)

(***************************************************************************)
(* validators/operations.rs                                                *)
(***************************************************************************)
\* The check without the test of the compilation mode.
exception_specifications_in_any_mode(op, diags) ==
    IF op.exception_specification # <<>>
    THEN Append(diags,
                Diagnostic("Error", "ExceptionSpecificationNotSupported", "", "",
                           Span("exception_specification", 1, Len(op.exception_specification)),
                           <<>>))
    ELSE diags

\* The check reporting every entry of the exception specification by itself.
RECURSIVE ReportEachEntry(_, _, _)
ReportEachEntry(i, op, diags) ==
    IF i > Len(op.exception_specification) THEN diags
    ELSE ReportEachEntry(i + 1, op,
            Append(diags,
                   Diagnostic("Error", "ExceptionSpecificationNotSupported", "", "",
                              Span("exception_specification", i, i), <<>>)))
exception_specifications_reported_per_entry(op, diags) ==
    IF op.encoding # "Slice1" /\ op.exception_specification # <<>>
    THEN ReportEachEntry(1, op, diags)
    ELSE diags

\* The check attaching a note that points at the file's mode declaration.
exception_specifications_with_mode_note(op, diags) ==
    IF op.encoding # "Slice1" /\ op.exception_specification # <<>>
    THEN Append(diags,
                Diagnostic("Error", "ExceptionSpecificationNotSupported", "", "",
                           Span("exception_specification", 1, Len(op.exception_specification)),
                           << Note("file's compilation mode was set here", Span("mode", 1, 1)) >>))
    ELSE diags

\* The check remembering, from one run to the next, that it has reported.
exception_specifications_reported_once(op, diags) ==
    IF op.encoding # "Slice1" /\ op.exception_specification # <<>> /\ ~first_run.completed
    THEN Append(diags,
                Diagnostic("Error", "ExceptionSpecificationNotSupported", "", "",
                           Span("exception_specification", 1, Len(op.exception_specification)),
                           <<>>))
    ELSE diags

exception_specifications_can_only_be_used_in_slice1_mode(op, diags) ==
    IF op.encoding # "Slice1" /\ op.exception_specification # <<>>
    THEN Append(diags,
                Diagnostic("Error", "ExceptionSpecificationNotSupported", "", "",
                           Span("exception_specification", 1, Len(op.exception_specification)),
                           <<>>))
    ELSE diags

\* Whether the list of identifiers contains the identifier.
Contains(identifiers, id) == \E i \in DOMAIN identifiers : identifiers[i] = id

RECURSIVE ParamTagsLoop(_, _, _)
ParamTagsLoop(i, op, diags) ==
    IF i > Len(op.comment.params) THEN diags
    ELSE LET tag_identifier == op.comment.params[i].identifier
         IN  ParamTagsLoop(i + 1, op,
                IF ~Contains(op.parameters, tag_identifier)
                THEN Append(diags,
                            IncorrectDocComment("param: no parameter with that name",
                                                tag_identifier, Span("param_tag", i, i), <<>>))
                ELSE diags)

\* The check of the 'param' tags reporting into a collector of its own.
validate_param_tags_into_new_collector(op, diags) == ParamTagsLoop(1, op, <<>>)

validate_param_tags(op, diags) == ParamTagsLoop(1, op, diags)

RECURSIVE validate_returns_tags_for_operation_with_no_return_type(_, _, _)
validate_returns_tags_for_operation_with_no_return_type(i, op, diags) ==
    IF i > Len(op.comment.returns) THEN diags
    ELSE validate_returns_tags_for_operation_with_no_return_type(i + 1, op,
            Append(diags,
                   IncorrectDocComment("returns: operation does not return anything", "",
                                       Span("returns_tag+message", i, i), <<>>)))

RECURSIVE validate_returns_tags_for_operation_with_single_return(_, _, _)
validate_returns_tags_for_operation_with_single_return(i, op, diags) ==
    IF i > Len(op.comment.returns) THEN diags
    ELSE LET tag_identifier == op.comment.returns[i].identifier
         IN  validate_returns_tags_for_operation_with_single_return(i + 1, op,
                IF tag_identifier # NoIdentifier
                THEN Append(diags,
                            IncorrectDocComment(
                                "returns: operation doesn't return anything with that name",
                                tag_identifier, Span("returns_tag", i, i),
                                << Note("operation returns a single unnamed type", OperationSpan),
                                   Note("try removing the identifier from your comment", NoSpan) >>))
                ELSE diags)

RECURSIVE validate_returns_tags_for_operation_with_return_tuple(_, _, _)
validate_returns_tags_for_operation_with_return_tuple(i, op, diags) ==
    IF i > Len(op.comment.returns) THEN diags
    ELSE LET tag_identifier == op.comment.returns[i].identifier
         IN  validate_returns_tags_for_operation_with_return_tuple(i + 1, op,
                IF tag_identifier # NoIdentifier /\ ~Contains(op.return_members, tag_identifier)
                THEN Append(diags,
                            IncorrectDocComment(
                                "returns: operation doesn't return anything with that name",
                                tag_identifier, Span("returns_tag", i, i), <<>>))
                ELSE diags)

\* The dispatch with a single return type handled like a return tuple.
validate_returns_tags_single_as_tuple(op, diags) ==
    IF Len(op.return_members) = 0
    THEN validate_returns_tags_for_operation_with_no_return_type(1, op, diags)
    ELSE validate_returns_tags_for_operation_with_return_tuple(1, op, diags)

validate_returns_tags(op, diags) ==
    IF Len(op.return_members) = 0
    THEN validate_returns_tags_for_operation_with_no_return_type(1, op, diags)
    ELSE IF Len(op.return_members) = 1
    THEN validate_returns_tags_for_operation_with_single_return(1, op, diags)
    ELSE validate_returns_tags_for_operation_with_return_tuple(1, op, diags)

\* The comparison walking the base chain of thrown_exception instead.
RECURSIVE is_thrown_exception_compatible(_, _)
is_thrown_exception_compatible(thrown_exception, documented_exception) ==
    IF thrown_exception = documented_exception
    THEN TRUE
    ELSE IF base_exception[thrown_exception] # NoException
    THEN is_thrown_exception_compatible(base_exception[thrown_exception], documented_exception)
    ELSE FALSE

\* The comparison looking at the direct base only.
is_documented_exception_or_its_base(thrown_exception, documented_exception) ==
    \/ thrown_exception = documented_exception
    \/ thrown_exception = base_exception[documented_exception]

\* Returns true if documented_exception is the same as, or derives from,
\* thrown_exception.
RECURSIVE is_documented_exception_compatible(_, _)
is_documented_exception_compatible(thrown_exception, documented_exception) ==
    IF thrown_exception = documented_exception
    THEN TRUE
    ELSE IF base_exception[documented_exception] # NoException
    THEN is_documented_exception_compatible(thrown_exception,
                                            base_exception[documented_exception])
    ELSE FALSE

RECURSIVE validate_throws_tags_for_operation_with_no_throws_clause(_, _, _)
validate_throws_tags_for_operation_with_no_throws_clause(i, op, diags) ==
    IF i > Len(op.comment.throws) THEN diags
    ELSE validate_throws_tags_for_operation_with_no_throws_clause(i + 1, op,
            Append(diags,
                   IncorrectDocComment("throws: operation does not throw anything", "",
                                       Span("throws_tag+message", i, i), <<>>)))

RECURSIVE validate_throws_tags_for_operation_with_throws_clause(_, _, _)
validate_throws_tags_for_operation_with_throws_clause(i, op, diags) ==
    IF i > Len(op.comment.throws) THEN diags
    ELSE LET documented_exception == op.comment.throws[i].thrown_type
             exception_types == op.exception_specification
             is_correct ==
                 \E j \in DOMAIN exception_types :
                    is_documented_exception_compatible(exception_types[j], documented_exception)
         IN  validate_throws_tags_for_operation_with_throws_clause(i + 1, op,
                IF documented_exception # NoException /\ ~is_correct
                THEN Append(diags,
                            IncorrectDocComment("throws: operation doesn't throw this exception",
                                                documented_exception,
                                                Span("throws_tag", i, i), <<>>))
                ELSE diags)

validate_throws_tags(op, diags) ==
    IF op.exception_specification = <<>>
    THEN validate_throws_tags_for_operation_with_no_throws_clause(1, op, diags)
    ELSE validate_throws_tags_for_operation_with_throws_clause(1, op, diags)

(***************************************************************************)
(* The values of the variables a specification does not use.               *)
(***************************************************************************)
NoRun == [completed |-> FALSE, operation |-> NoOperation, diagnostics |-> <<>>]
NoParseError == [kind |-> "none"]
NoFrame == [method |-> "none", class |-> 0, statement |-> 0, slice |-> 0]
NoCsOperation == [has_encoded_result |-> FALSE, returns_classes |-> FALSE,
                  format_type |-> "FormatType.Default", return_members |-> <<>>]
NoReturned == [of |-> "none"]
NoUnparsed == [directive |-> "", args |-> <<>>]
NoCustomType == [identifier |-> "", supported_encodings |-> <<>>]

FilesIdle ==
    /\ options = [sources |-> <<>>, references |-> <<>>]
    /\ file_paths = <<>>
    /\ files = <<>>

OperationIdle ==
    /\ operation = NoOperation
    /\ base_exception = DeclaredBase
    /\ first_run = NoRun
    /\ call = NoCall

LintIdle == parse_error = NoParseError

ClassIdle ==
    /\ classes = <<>>
    /\ wire = <<>>
    /\ frame = NoFrame
    /\ instance = <<>>

EncodedResultIdle == cs_operation = NoCsOperation

StreamsIdle == member_list = [parameters |-> <<>>, return_members |-> <<>>]

GrammarIdle ==
    /\ unparsed = NoUnparsed
    /\ custom_type = NoCustomType
    /\ collected = <<>>

GeneratorsIdle ==
    /\ GrammarIdle
    /\ LintIdle
    /\ ClassIdle
    /\ EncodedResultIdle
    /\ StreamsIdle
    /\ returned = NoReturned

InitCompatible ==
    /\ base_exception \in Hierarchies
    /\ call \in [thrown : 1..NumExceptions, documented : 1..NumExceptions,
                 current : 1..NumExceptions, depth : {0}, result : {FALSE}]
    /\ call.current = call.documented
    /\ pc = "compatible"
    /\ operation = NoOperation
    /\ first_run = NoRun
    /\ diagnostics = <<>>
    /\ FilesIdle
    /\ GeneratorsIdle

\* is_documented_exception_compatible, one call of the recursion: the two
\* exceptions are the same one.
CompatibleSame ==
    /\ pc = "compatible"
    /\ call.thrown = call.current
    /\ call' = [call EXCEPT !.result = TRUE]
    /\ pc' = "returned"
    /\ UNCHANGED <<fileVars, opVars, diagnostics, genVars>>

\* ... the documented exception has a base: the call recurses on it.
CompatibleBase ==
    /\ pc = "compatible"
    /\ call.thrown # call.current
    /\ base_exception[call.current] # NoException
    /\ call' = [call EXCEPT !.current = base_exception[call.current], !.depth = @ + 1]
    /\ UNCHANGED <<fileVars, opVars, diagnostics, pc, genVars>>

\* ... it has no base.
CompatibleNoBase ==
    /\ pc = "compatible"
    /\ call.thrown # call.current
    /\ base_exception[call.current] = NoException
    /\ call' = [call EXCEPT !.result = FALSE]
    /\ pc' = "returned"
    /\ UNCHANGED <<fileVars, opVars, diagnostics, genVars>>

NextCompatible ==
    \/ CompatibleSame
    \/ CompatibleBase
    \/ CompatibleNoBase

SpecCompatible == InitCompatible /\ [][NextCompatible]_vars

InitOp ==
    /\ operation \in Operations
    /\ base_exception = DeclaredBase
    /\ first_run = [completed |-> FALSE, operation |-> operation, diagnostics |-> <<>>]
    /\ diagnostics = <<>>
    /\ pc = "exception_specifications"
    /\ FilesIdle
    /\ call = NoCall
    /\ GeneratorsIdle

\* validate_operation: the check of the exception specification, and whether
\* there is a comment to validate.
ExceptionSpecifications ==
    /\ pc = "exception_specifications"
    /\ diagnostics' =
          exception_specifications_can_only_be_used_in_slice1_mode(operation, diagnostics)
    /\ pc' = IF operation.comment.present THEN "param_tags" ELSE "validated"
    /\ UNCHANGED <<fileVars, opVars, call, genVars>>

ValidateParamTags ==
    /\ pc = "param_tags"
    /\ diagnostics' = validate_param_tags(operation, diagnostics)
    /\ pc' = "returns_tags"
    /\ UNCHANGED <<fileVars, opVars, call, genVars>>

ValidateReturnsTags ==
    /\ pc = "returns_tags"
    /\ diagnostics' = validate_returns_tags(operation, diagnostics)
    /\ pc' = "throws_tags"
    /\ UNCHANGED <<fileVars, opVars, call, genVars>>

ValidateThrowsTags ==
    /\ pc = "throws_tags"
    /\ diagnostics' = validate_throws_tags(operation, diagnostics)
    /\ pc' = "validated"
    /\ UNCHANGED <<fileVars, opVars, call, genVars>>

\* The caller keeps what the run reported and validates the same operation
\* once more, into a new, empty collector.
ValidateAgain ==
    /\ pc = "validated"
    /\ ~first_run.completed
    /\ first_run' = [first_run EXCEPT !.completed = TRUE, !.diagnostics = diagnostics]
    /\ diagnostics' = <<>>
    /\ pc' = "exception_specifications"
    /\ UNCHANGED <<fileVars, operation, base_exception, call, genVars>>

NextOp ==
    \/ ExceptionSpecifications
    \/ ValidateParamTags
    \/ ValidateReturnsTags
    \/ ValidateThrowsTags
    \/ ValidateAgain

SpecOp == InitOp /\ [][NextOp]_vars

(***************************************************************************)
(* file_util.rs                                                            *)
(***************************************************************************)
NoneFound == [paths |-> <<>>, diags |-> <<>>]

RECURSIVE find_slice_files_in_path(_), FindInChildren(_, _, _)

\* find_slice_files_in_directory's loop over the entries of the directory.
FindInChildren(path, entries, acc) ==
    IF entries = <<>> THEN acc
    ELSE LET found == find_slice_files_in_path(Append(path, Head(entries)))
         IN  FindInChildren(path, Tail(entries),
                            [paths |-> acc.paths \o found.paths,
                             diags |-> acc.diags \o found.diags])

find_slice_files_in_directory(path) ==
    FindInChildren(path, DirEntries(canonicalize(path)), NoneFound)

find_slice_files_in_path(path) ==
    IF is_dir(path)
    THEN IF ReadDirOk(canonicalize(path))
         THEN find_slice_files_in_directory(path)
         ELSE [paths |-> <<>>, diags |-> <<IOError(path, "read_dir")>>]
    ELSE IF is_file(path) /\ is_slice_file(path)
    THEN [paths |-> <<path>>, diags |-> <<>>]
    ELSE NoneFound

\* find_slice_files' loop, leaving the loop at the first rejected path instead
\* of going on to the next one.
RECURSIVE FindLoopStopsAtBadPath(_, _, _)
FindLoopStopsAtBadPath(paths, allow_directories, acc) ==
    IF paths = <<>> THEN acc
    ELSE LET path == Head(paths)
             rest == Tail(paths)
         IN  IF ~exists(path)
             THEN [acc EXCEPT !.diags = Append(@, IOError(path, "NotFound"))]
             ELSE IF is_file(path) /\ ~is_slice_file(path)
             THEN [acc EXCEPT !.diags = Append(@, IOError(path, "NotSliceFile"))]
             ELSE IF is_dir(path) /\ ~allow_directories
             THEN [acc EXCEPT !.diags = Append(@, IOError(path, "IsDirectory"))]
             ELSE LET found == find_slice_files_in_path(path)
                  IN  FindLoopStopsAtBadPath(rest, allow_directories,
                               [paths |-> acc.paths \o found.paths,
                                diags |-> acc.diags \o found.diags])

\* The first part of find_slice_files: the loop over the listed paths.
RECURSIVE FindLoop(_, _, _)
FindLoop(paths, allow_directories, acc) ==
    IF paths = <<>> THEN acc
    ELSE LET path == Head(paths)
             rest == Tail(paths)
         IN  IF ~exists(path)
             THEN FindLoop(rest, allow_directories,
                           [acc EXCEPT !.diags = Append(@, IOError(path, "NotFound"))])
             ELSE IF is_file(path) /\ ~is_slice_file(path)
             THEN FindLoop(rest, allow_directories,
                           [acc EXCEPT !.diags = Append(@, IOError(path, "NotSliceFile"))])
             ELSE IF is_dir(path) /\ ~allow_directories
             THEN FindLoop(rest, allow_directories,
                           [acc EXCEPT !.diags = Append(@, IOError(path, "IsDirectory"))])
             ELSE LET found == find_slice_files_in_path(path)
                  IN  FindLoop(rest, allow_directories,
                               [paths |-> acc.paths \o found.paths,
                                diags |-> acc.diags \o found.diags])

\* FilePath::try_from applied to every path found (the filter_map).
RECURSIVE TryFromAll(_, _)
TryFromAll(paths, acc) ==
    IF paths = <<>> THEN acc
    ELSE LET path == Head(paths)
             canonicalized_path == canonicalize(path)
         IN  IF canonicalized_path # NotFound
             THEN TryFromAll(Tail(paths),
                             [acc EXCEPT !.paths = Append(@,
                                [path |-> path, canonicalized_path |-> canonicalized_path])])
             ELSE TryFromAll(Tail(paths),
                             [acc EXCEPT !.diags = Append(@, IOError(path, "canonicalize"))])

\* find_slice_files: [paths |-> the FilePaths found, diags |-> the diagnostics pushed].
find_slice_files(paths, allow_directories) ==
    LET slice_paths == FindLoop(paths, allow_directories, NoneFound)
    IN  TryFromAll(slice_paths.paths, [paths |-> <<>>, diags |-> slice_paths.diags])

\* An insert that leaves the value of a key already in the map as it was.
HashMapInsertKeepsValue(map, file_path, is_source) ==
    LET k == file_path.canonicalized_path
    IN  IF k \in DOMAIN map
        THEN map
        ELSE [c \in DOMAIN map \cup {k} |->
                 IF c = k THEN [path |-> file_path.path, is_source |-> is_source]
                 ELSE map[c]]

\* An insert that replaces the key already in the map by the new, equal key.
HashMapInsertReplacesKey(map, file_path, is_source) ==
    LET k == file_path.canonicalized_path
    IN  [c \in DOMAIN map \cup {k} |->
            IF c = k THEN [path |-> file_path.path, is_source |-> is_source]
            ELSE map[c]]

\* HashMap::insert with a FilePath key (equal when the canonicalized paths are):
\* the value is replaced, the key already in the map is kept.
HashMapInsert(map, file_path, is_source) ==
    LET k == file_path.canonicalized_path
    IN  IF k \in DOMAIN map
        THEN [map EXCEPT ![k].is_source = is_source]
        ELSE [c \in DOMAIN map \cup {k} |->
                 IF c = k THEN [path |-> file_path.path, is_source |-> is_source]
                 ELSE map[c]]

\* The loop over reference_files.
RECURSIVE InsertReferences(_, _, _)
InsertReferences(reference_files, map, diags) ==
    IF reference_files = <<>> THEN [map |-> map, diags |-> diags]
    ELSE LET reference_file == Head(reference_files)
             previous == reference_file.canonicalized_path \in DOMAIN map
         IN  InsertReferences(Tail(reference_files),
                              HashMapInsert(map, reference_file, FALSE),
                              IF previous
                              THEN Append(diags, DuplicateFile(reference_file.path))
                              ELSE diags)

\* The loop over source_files, reporting a lint for a source that duplicates
\* any earlier file, a reference included.
RECURSIVE InsertSourcesLintsAnyDuplicate(_, _, _)
InsertSourcesLintsAnyDuplicate(source_files, map, diags) ==
    IF source_files = <<>> THEN [map |-> map, diags |-> diags]
    ELSE LET source_file == Head(source_files)
             k == source_file.canonicalized_path
         IN  InsertSourcesLintsAnyDuplicate(Tail(source_files),
                           HashMapInsert(map, source_file, TRUE),
                           IF k \in DOMAIN map
                           THEN Append(diags, DuplicateFile(source_file.path))
                           ELSE diags)

\* The loop over source_files.
RECURSIVE InsertSources(_, _, _)
InsertSources(source_files, map, diags) ==
    IF source_files = <<>> THEN [map |-> map, diags |-> diags]
    ELSE LET source_file == Head(source_files)
             k == source_file.canonicalized_path
             was_source == k \in DOMAIN map /\ map[k].is_source
         IN  InsertSources(Tail(source_files),
                           HashMapInsert(map, source_file, TRUE),
                           IF was_source
                           THEN Append(diags, DuplicateFile(source_file.path))
                           ELSE diags)

\* The function m without the key k.
Without(m, k) == [c \in DOMAIN m \ {k} |-> m[c]]

Init ==
    /\ options \in [sources : SeqsUpTo(UserPaths, MaxPaths),
                    references : SeqsUpTo(UserPaths, MaxPaths)]
    /\ file_paths = <<>>
    /\ files = <<>>
    /\ OperationIdle
    /\ GeneratorsIdle
    /\ diagnostics = <<>>
    /\ pc = "references"

\* resolve_files_from, the reference files.
ResolveReferences ==
    /\ pc = "references"
    /\ LET reference_files == find_slice_files(options.references, TRUE)
           inserted == InsertReferences(reference_files.paths, file_paths,
                                        diagnostics \o reference_files.diags)
       IN  /\ file_paths' = inserted.map
           /\ diagnostics' = inserted.diags
    /\ pc' = "sources"
    /\ UNCHANGED <<options, files, opVars, call, genVars>>

\* resolve_files_from, the source files.
ResolveSources ==
    /\ pc = "sources"
    /\ LET source_files == find_slice_files(options.sources, FALSE)
           inserted == InsertSources(source_files.paths, file_paths,
                                     diagnostics \o source_files.diags)
       IN  /\ file_paths' = inserted.map
           /\ diagnostics' = inserted.diags
    /\ pc' = "read"
    /\ UNCHANGED <<options, files, opVars, call, genVars>>

\* resolve_files_from, one iteration of the loop that consumes the map.  A
\* HashMap iterates in an arbitrary order.
ReadFile ==
    /\ pc = "read"
    /\ \E k \in DOMAIN file_paths :
          /\ IF ReadToStringOk(k)
             THEN /\ files' = Append(files, [path |-> file_paths[k].path,
                                             is_source |-> file_paths[k].is_source])
                  /\ UNCHANGED diagnostics
             ELSE /\ diagnostics' = Append(diagnostics,
                                           IOError(file_paths[k].path, "read_to_string"))
                  /\ UNCHANGED files
          /\ file_paths' = Without(file_paths, k)
    /\ UNCHANGED <<options, pc, opVars, call, genVars>>

\* resolve_files_from returns files.
ReturnFiles ==
    /\ pc = "read"
    /\ DOMAIN file_paths = {}
    /\ pc' = "done"
    /\ UNCHANGED <<options, file_paths, files, diagnostics, opVars, call, genVars>>

Next ==
    \/ ResolveReferences
    \/ ResolveSources
    \/ ReadFile
    \/ ReturnFiles

Spec == Init /\ [][Next]_vars

(***************************************************************************)
(* Claims about resolve_files_from                                         *)
(***************************************************************************)
Max(a, b) == IF a >= b THEN a ELSE b

\* The canonical paths of the Slice files of the file system.
SliceFilePaths ==
    { canonicalize(path) : path \in { p \in UserPaths : is_file(p) /\ is_slice_file(p) } }

IsPrefix(s, t) == Len(s) <= Len(t) /\ SubSeq(t, 1, Len(s)) = s

\* A listed path names the file c: it is a spelling of c, or (where
\* directories are accepted) of a directory above c.
Names(path, c, allow_directories) ==
    \/ canonicalize(path) = c
    \/ allow_directories /\ is_dir(path) /\ IsPrefix(canonicalize(path), c)

\* How often the Slice file c occurs among the reference and the source files.
RefCount(c) ==
    Cardinality({ i \in DOMAIN options.references : Names(options.references[i], c, TRUE) })
SrcCount(c) ==
    Cardinality({ i \in DOMAIN options.sources : Names(options.sources[i], c, FALSE) })

\* The compilation units, lints and errors of the Slice file c.
UnitsOf(c) == { i \in DOMAIN files : canonicalize(files[i].path) = c }
LintsOf(c) ==
    { i \in DOMAIN diagnostics :
        /\ diagnostics[i].code = "DuplicateFile"
        /\ canonicalize(diagnostics[i].path) = c }
ErrorsOf(c) ==
    { i \in DOMAIN diagnostics :
        /\ diagnostics[i].severity = "Error"
        /\ canonicalize(diagnostics[i].path) = c }

\* A listed path that find_slice_files rejects.
BadPath(path, allow_directories) ==
    \/ ~exists(path)
    \/ is_file(path) /\ ~is_slice_file(path)
    \/ is_dir(path) /\ ~allow_directories

\* How often the path is listed and rejected.
BadListings(path) ==
    Cardinality({ i \in DOMAIN options.references :
                    options.references[i] = path /\ BadPath(path, TRUE) })
    + Cardinality({ i \in DOMAIN options.sources :
                    options.sources[i] = path /\ BadPath(path, FALSE) })

ReadErrorsFor(path) ==
    { i \in DOMAIN diagnostics :
        /\ diagnostics[i].code = "IO"
        /\ diagnostics[i].action = "read"
        /\ diagnostics[i].path = path }

\* One path, listed once as a source and once as a reference.
SourceAndReference(path) ==
    /\ options.sources = <<path>>
    /\ options.references = <<path>>

\* At most one unit per canonical path; a unit is a source exactly when its
\* canonical path occurs among the sources.
OneUnitSourceWins ==
    /\ \A c \in SliceFilePaths : Cardinality(UnitsOf(c)) <= 1
    /\ \A i \in DOMAIN files :
          files[i].is_source = (SrcCount(canonicalize(files[i].path)) >= 1)

\* C1 as stated: at most one unit per canonical path, marked as a source
\* exactly when the path occurs among the sources; a Slice file given once as
\* a source and once as a reference yields one unit, a source, and no
\* diagnostic.
C1_Original ==
    /\ OneUnitSourceWins
    /\ \A path \in UserPaths :
          pc = "done" /\ SourceAndReference(path) /\ is_file(path) /\ is_slice_file(path)
          => /\ Len(files) = 1
             /\ files[1].is_source
             /\ diagnostics = <<>>

\* C1 amended: as C1, but the one unit and the empty diagnostics are those of
\* a Slice file whose text can be read; one that cannot be read yields no unit
\* and a single Error::IO.
C1_SourceOverridesReference ==
    /\ OneUnitSourceWins
    /\ \A path \in UserPaths :
          pc = "done" /\ SourceAndReference(path) /\ is_file(path) /\ is_slice_file(path)
          => IF ReadToStringOk(canonicalize(path))
             THEN /\ Len(files) = 1
                  /\ files[1].is_source
                  /\ diagnostics = <<>>
             ELSE /\ files = <<>>
                  /\ diagnostics = <<IOError(path, "read_to_string")>>

\* C1 witness: a readable file was given as a source and a reference, under
\* two spellings, and came out as one source unit.
C1_Witness ==
    /\ pc = "done"
    /\ options.references = << <<"a.slice">> >>
    /\ options.sources = << <<"d", "..", "a.slice">> >>
    /\ Len(files) = 1
    /\ files[1].is_source
    /\ diagnostics = <<>>

\* The DuplicateFile lints of every Slice file: one for each repetition among
\* the references, one for each repetition among the sources; and no Error
\* unless the file cannot be read.
DuplicateLints ==
    \A c \in SliceFilePaths :
        /\ Cardinality(LintsOf(c)) = Max(RefCount(c) - 1, 0) + Max(SrcCount(c) - 1, 0)
        /\ ReadToStringOk(c) => ErrorsOf(c) = {}

\* C2 as stated: r occurrences among the references and s among the sources
\* give max(r-1,0) + max(s-1,0) DuplicateFile lints and no Error, and the path
\* still resolves to exactly one unit.
C2_Original ==
    pc = "done" =>
        \A c \in SliceFilePaths :
            /\ Cardinality(LintsOf(c)) = Max(RefCount(c) - 1, 0) + Max(SrcCount(c) - 1, 0)
            /\ ErrorsOf(c) = {}
            /\ RefCount(c) + SrcCount(c) >= 1 => Cardinality(UnitsOf(c)) = 1

\* C2 amended: the lints are as stated and no Error is reported for the
\* duplication; the path resolves to exactly one unit when its text can be
\* read, and otherwise to no unit and exactly one Error::IO however often it
\* was listed.
C2_DuplicateLints ==
    pc = "done" =>
        /\ DuplicateLints
        /\ \A c \in SliceFilePaths :
              RefCount(c) + SrcCount(c) >= 1 =>
                 IF ReadToStringOk(c)
                 THEN Cardinality(UnitsOf(c)) = 1
                 ELSE UnitsOf(c) = {} /\ Cardinality(ErrorsOf(c)) = 1

\* C2 witness: a file listed twice as a reference and twice as a source got
\* two lints and one unit.
C2_Witness ==
    /\ pc = "done"
    /\ \E c \in SliceFilePaths :
          /\ RefCount(c) >= 2
          /\ SrcCount(c) >= 2
          /\ Cardinality(LintsOf(c)) = 2
          /\ Cardinality(UnitsOf(c)) = 1

\* Every rejected listing has its one Error::IO with action "read".
OneErrorPerBadListing ==
    \A path \in UserPaths :
        BadListings(path) >= 1 => Cardinality(ReadErrorsFor(path)) = BadListings(path)

RECURSIVE BaseAt(_, _)
BaseAt(e, n) ==
    IF n = 0 \/ e = NoException THEN e ELSE BaseAt(base_exception[e], n - 1)

\* d is t, or derives from t in any number of steps.
SameOrDerivesFrom(d, t) ==
    \E n \in 0..Cardinality(DOMAIN base_exception) : BaseAt(d, n) = t

\* Neither exception is on the base chain of the other.
Unrelated(a, b) == ~SameOrDerivesFrom(a, b) /\ ~SameOrDerivesFrom(b, a)

\* The ExceptionSpecificationNotSupported diagnostics reported.
SpecificationErrors ==
    { k \in DOMAIN diagnostics :
        diagnostics[k].code = "ExceptionSpecificationNotSupported" }

\* The diagnostics reported for the i-th tag of a kind.
DiagnosticsFor(kinds, i) ==
    { k \in DOMAIN diagnostics :
        diagnostics[k].span.of \in kinds /\ diagnostics[k].span.start = i }
ReturnsSpans == {"returns_tag", "returns_tag+message"}
ThrowsSpans == {"throws_tag", "throws_tag+message"}

IsIncorrectDocCommentLint(k) ==
    diagnostics[k].severity = "Lint" /\ diagnostics[k].code = "IncorrectDocComment"

\* C4: ExceptionSpecificationNotSupported is reported, as an Error, if and
\* only if the operation's mode is not Slice1 and its exception specification
\* is not empty.
C4_SpecificationErrorIffNotSlice1 ==
    pc # "exception_specifications" =>
        ((\E k \in SpecificationErrors : diagnostics[k].severity = "Error")
         <=> (operation.encoding # "Slice1" /\ operation.exception_specification # <<>>))

\* C4 witness: a Slice2 operation with a throws clause was validated and got
\* the error.
C4_Witness ==
    /\ pc = "validated"
    /\ operation.encoding = "Slice2"
    /\ Len(operation.exception_specification) = 1
    /\ SpecificationErrors # {}

\* C5 as stated: outside Slice1 mode, a throws clause of k >= 1 exceptions
\* gets k diagnostics, one for each entry.
C5_Original ==
    pc = "validated" /\ operation.encoding # "Slice1"
                     /\ Len(operation.exception_specification) >= 1
    => Cardinality(SpecificationErrors) = Len(operation.exception_specification)

\* C5 amended: outside Slice1 mode, a throws clause of k >= 1 exceptions gets
\* exactly one diagnostic, whose span runs from the first entry to the last.
C5_OneErrorCoversAllEntries ==
    pc = "validated" /\ operation.encoding # "Slice1"
                     /\ Len(operation.exception_specification) >= 1
    => /\ Cardinality(SpecificationErrors) = 1
       /\ \A k \in SpecificationErrors :
             diagnostics[k].span =
                Span("exception_specification", 1, Len(operation.exception_specification))

\* C5 witness: a throws clause of two exceptions outside Slice1 mode got one
\* diagnostic.
C5_Witness ==
    /\ pc = "validated"
    /\ operation.encoding # "Slice1"
    /\ Len(operation.exception_specification) >= 2
    /\ Cardinality(SpecificationErrors) = 1

\* C6 as stated: the diagnostic for an exception specification outside Slice1
\* mode carries a note that points at the file's mode declaration.
C6_Original ==
    \A k \in SpecificationErrors :
        \E n \in DOMAIN diagnostics[k].notes : diagnostics[k].notes[n].span.of = "mode"

\* C6 amended: the diagnostic for an exception specification outside Slice1
\* mode carries no note; it has the span of the exception specification and
\* the operation as its scope.
C6_SpecificationErrorHasNoNote ==
    \A k \in SpecificationErrors :
        /\ diagnostics[k].notes = <<>>
        /\ diagnostics[k].span.of = "exception_specification"
        /\ diagnostics[k].scope = parser_scoped_identifier

\* C6 witness: the diagnostic was reported for a documented operation, and
\* has no note.
C6_Witness ==
    /\ pc = "validated"
    /\ operation.comment.present
    /\ \E k \in SpecificationErrors : diagnostics[k].notes = <<>>

\* The throws tags whose type resolves, of an operation with a throws clause
\* whose validation is over.
ResolvedThrowsTags ==
    IF pc = "validated" /\ operation.exception_specification # <<>>
    THEN { i \in DOMAIN operation.comment.throws :
             operation.comment.throws[i].thrown_type # NoException }
    ELSE {}

\* C7 as stated: such a tag is accepted exactly when the documented exception
\* equals, or is a transitive base of, one of the declared exceptions, and
\* gets exactly one lint otherwise.
C7_Original ==
    \A i \in ResolvedThrowsTags :
        LET documented == operation.comment.throws[i].thrown_type
            accepted == \E j \in DOMAIN operation.exception_specification :
                           SameOrDerivesFrom(operation.exception_specification[j], documented)
        IN  /\ Cardinality(DiagnosticsFor(ThrowsSpans, i)) = IF accepted THEN 0 ELSE 1
            /\ \A k \in DiagnosticsFor(ThrowsSpans, i) : IsIncorrectDocCommentLint(k)

\* C7 amended: such a tag is accepted exactly when the documented exception
\* equals, or transitively derives from, one of the declared exceptions, and
\* gets exactly one lint otherwise.
C7_DocumentedDerivesFromThrown ==
    \A i \in ResolvedThrowsTags :
        LET documented == operation.comment.throws[i].thrown_type
            accepted == \E j \in DOMAIN operation.exception_specification :
                           SameOrDerivesFrom(documented, operation.exception_specification[j])
        IN  /\ Cardinality(DiagnosticsFor(ThrowsSpans, i)) = IF accepted THEN 0 ELSE 1
            /\ \A k \in DiagnosticsFor(ThrowsSpans, i) : IsIncorrectDocCommentLint(k)

\* C7 witness: 'throws (E4, E1)' documented with '@throws E3' (E3 derives
\* from E1 through E2) and '@throws E4' got no lint.
C7_Witness ==
    /\ pc = "validated"
    /\ operation.exception_specification = <<4, 1>>
    /\ operation.comment.throws = << [thrown_type |-> 3], [thrown_type |-> 4] >>
    /\ DiagnosticsFor(ThrowsSpans, 1) = {}
    /\ DiagnosticsFor(ThrowsSpans, 2) = {}

\* C8: is_documented_exception_compatible(thrown, documented) is true exactly
\* when documented is thrown or derives from it; it is true of an exception
\* and itself, false of unrelated exceptions, composes along the chain, and
\* returns after at most as many recursive calls as there are exceptions.
C8_CompatibleIsSameOrDerives ==
    LET Exceptions == DOMAIN base_exception IN
    /\ \A a, b \in Exceptions :
          is_documented_exception_compatible(a, b) <=> SameOrDerivesFrom(b, a)
    /\ \A a \in Exceptions : is_documented_exception_compatible(a, a)
    /\ \A a, b \in Exceptions :
          Unrelated(a, b) => ~is_documented_exception_compatible(a, b)
    /\ \A a, b, c \in Exceptions :
          /\ is_documented_exception_compatible(a, b)
          /\ is_documented_exception_compatible(b, c)
          => is_documented_exception_compatible(a, c)
    /\ call.depth < Cardinality(Exceptions)
    /\ BaseAt(call.documented, call.depth) = call.current
    /\ pc = "returned" =>
          /\ call.result = is_documented_exception_compatible(call.thrown, call.documented)
          /\ call.result = SameOrDerivesFrom(call.documented, call.thrown)

\* C8 witness: a call returned true after walking two bases up the chain.
C8_Witness ==
    /\ pc = "returned"
    /\ call.result
    /\ call.depth >= 2

\* C9: in Slice1 mode, 'throws E1' documented with '@throws E2', E2 unrelated
\* to E1, gets exactly one diagnostic for the tag, a Lint IncorrectDocComment,
\* and validate_operation reports no Error.
C9_UnrelatedThrowsTagIsOneLint ==
    \A i \in ResolvedThrowsTags :
        /\ operation.encoding = "Slice1"
        /\ Len(operation.exception_specification) = 1
        /\ Unrelated(operation.comment.throws[i].thrown_type,
                     operation.exception_specification[1])
        => /\ Cardinality(DiagnosticsFor(ThrowsSpans, i)) = 1
           /\ \A k \in DiagnosticsFor(ThrowsSpans, i) : IsIncorrectDocCommentLint(k)
           /\ \A k \in DOMAIN diagnostics : diagnostics[k].severity # "Error"

\* C9 witness: 'throws E1' with the single tag '@throws E4' was validated in
\* Slice1 mode and the lint is the only diagnostic.
C9_Witness ==
    /\ pc = "validated"
    /\ operation.encoding = "Slice1"
    /\ operation.exception_specification = <<1>>
    /\ operation.comment.throws = << [thrown_type |-> 4] >>
    /\ Len(diagnostics) = 1
    /\ IsIncorrectDocCommentLint(1)

\* A returns tag that validate_returns_tags must report.
WrongReturnsTag(i) ==
    LET tag_identifier == operation.comment.returns[i].identifier
        members == operation.return_members
    IN  \/ Len(members) = 0
        \/ Len(members) = 1 /\ tag_identifier # NoIdentifier
        \/ /\ Len(members) >= 2
           /\ tag_identifier # NoIdentifier
           /\ \A m \in DOMAIN members : members[m] # tag_identifier

\* C10: once validate_returns_tags has run, every returns tag that exists
\* though nothing is returned, names the single return value, or names no
\* member of the return tuple has exactly one diagnostic, a Lint
\* IncorrectDocComment; every other returns tag has none.
C10_ReturnsTagLints ==
    pc \in {"throws_tags", "validated"} =>
        /\ \A i \in DOMAIN operation.comment.returns :
              /\ Cardinality(DiagnosticsFor(ReturnsSpans, i))
                    = IF WrongReturnsTag(i) THEN 1 ELSE 0
              /\ \A k \in DiagnosticsFor(ReturnsSpans, i) : IsIncorrectDocCommentLint(k)
        /\ Cardinality({ k \in DOMAIN diagnostics : diagnostics[k].span.of \in ReturnsSpans })
              = Cardinality({ i \in DOMAIN operation.comment.returns : WrongReturnsTag(i) })

\* C10 witness: on a tuple-returning operation, a tag without identifier got
\* no lint and a tag naming no member got one.
C10_Witness ==
    /\ pc = "validated"
    /\ Len(operation.return_members) = 2
    /\ operation.comment.returns = << [identifier |-> NoIdentifier],
                                      [identifier |-> "returnValue"] >>
    /\ DiagnosticsFor(ReturnsSpans, 1) = {}
    /\ Cardinality(DiagnosticsFor(ReturnsSpans, 2)) = 1

MaxExpected == 3

\* tokens::ErrorKind of the comment lexer, and TokenKind of its tokens.
ErrorKinds == {"UnknownSymbol", "MissingIdentifier"}
TokenKinds == {"Newline", "ThrowsKeyword"}
\* The names of terminals that lalrpop lists as expected.
ExpectedTokens == {"identifier", "newline", "param_keyword"}

\* lalrpop_util::ParseError<Location, TokenKind, Error>
ParseErrors ==
    [kind : {"User"}, error : ErrorKinds, token : {""}, expected : {<<>>}]
    \cup [kind : {"UnrecognizedToken"}, error : {""}, token : TokenKinds,
          expected : SeqsUpTo(ExpectedTokens, MaxExpected)]
    \cup [kind : {"UnrecognizedEof"}, error : {""}, token : {""},
          expected : SeqsUpTo(ExpectedTokens, MaxExpected)]
    \cup [kind : {"InvalidToken", "ExtraToken"}, error : {""}, token : {""},
          expected : {<<>>}]

\* Diagnostic::new(Lint::MalformedDocComment { message }).set_span(..)
MalformedDocComment(message, span) ==
    [severity |-> "Lint", code |-> "MalformedDocComment", message |-> message,
     span |-> span, notes |-> <<>>]

\* A function that panicked, and one that returned a value.
Panicked == [panicked |-> TRUE, value |-> <<>>]
Returned(value) == [panicked |-> FALSE, value |-> value]

\* [String]::join: the pieces of the joined text.
RECURSIVE Join(_, _)
Join(strings, separator) ==
    IF Len(strings) = 0 THEN <<>>
    ELSE IF Len(strings) = 1 THEN <<strings[1]>>
    ELSE <<strings[1], separator>> \o Join(Tail(strings), separator)

\* clean_message: the pieces of the formatted text.  Option::unwrap panics on
\* the None that split_last returns for an empty slice.
clean_message(expected) ==
    IF Len(expected) = 1 THEN Returned(<<expected[1]>>)
    ELSE IF Len(expected) = 2 THEN Returned(<<expected[1], " or ", expected[2]>>)
    ELSE IF Len(expected) = 0 THEN Panicked
    ELSE Returned(Join(SubSeq(expected, 1, Len(expected) - 1), ", ")
                  \o <<", or ", expected[Len(expected)]>>)

construct_lint_from(error) ==
    IF error.kind = "User"
    THEN Returned(MalformedDocComment(<<error.error>>, Span("token", 1, 2)))
    ELSE IF error.kind = "UnrecognizedToken"
    THEN LET cleaned == clean_message(error.expected)
         IN  IF cleaned.panicked THEN Panicked
             ELSE Returned(MalformedDocComment(
                     <<"expected one of ">> \o cleaned.value
                        \o <<", but found '", error.token, "'">>,
                     Span("token", 1, 2)))
    ELSE IF error.kind = "UnrecognizedEof"
    THEN LET cleaned == clean_message(error.expected)
         IN  IF cleaned.panicked THEN Panicked
             ELSE Returned(MalformedDocComment(
                     <<"expected one of ">> \o cleaned.value \o <<", but found 'EOF'">>,
                     Span("location", 3, 3)))
    ELSE Panicked   \* unreachable!

InitLint ==
    /\ GrammarIdle
    /\ parse_error \in ParseErrors
    /\ returned = NoReturned
    /\ pc = "construct_lint_from"
    /\ diagnostics = <<>>
    /\ FilesIdle
    /\ OperationIdle
    /\ ClassIdle
    /\ EncodedResultIdle
    /\ StreamsIdle

\* One call of construct_lint_from: it returns a diagnostic, or the thread
\* panics.
ConstructLint ==
    /\ pc = "construct_lint_from"
    /\ LET result == construct_lint_from(parse_error)
       IN  IF result.panicked
           THEN /\ pc' = "panicked"
                /\ UNCHANGED returned
           ELSE /\ pc' = "returned"
                /\ returned' = [of |-> "construct_lint_from", value |-> result.value]
    /\ UNCHANGED <<fileVars, opVars, call, diagnostics, parse_error, classes, wire, frame,
                   instance, cs_operation, member_list, grammarVars>>

NextLint == ConstructLint

SpecLint == InitLint /\ [][NextLint]_vars

\* C12: for every parse error of kind User, UnrecognizedToken or
\* UnrecognizedEof, whatever its list of expected tokens (the empty list
\* included), construct_lint_from does not panic and returns one diagnostic,
\* the Lint MalformedDocComment.
C12_Original ==
    (/\ parse_error.kind \in {"User", "UnrecognizedToken", "UnrecognizedEof"}
     /\ pc # "construct_lint_from")
    => /\ pc = "returned"
       /\ returned.value.severity = "Lint"
       /\ returned.value.code = "MalformedDocComment"

(***************************************************************************)
(* grammar: classes                                                        *)
(***************************************************************************)
\* The most classes in an inheritance chain, and the most members declared
\* by one class.
MaxLevels == 3
MaxMembers == 2

\* Option::None for the base of a class, and for its compact id.
NoClass == 0
NoCompactId == -1
CompactIds == {NoCompactId, 42}

\* The members a class at the given level of a chain declares: count members,
\* named by the level and their place in the declaration, each with or
\* without a default initializer.
MembersOf(level, defaults) ==
    [i \in 1..Len(defaults) |->
        [identifier |-> <<level, i>>, is_default_initialized |-> defaults[i]]]

\* The shape of a class: which of its members have a default initializer,
\* and its compact id.  flags and compact_ids: the values the two range over.
ClassShapes(flags, compact_ids) ==
    [defaults : SeqsUpTo(flags, MaxMembers), compact_id : compact_ids]

\* The chain of the classes of the given shapes; class 1 is the root and
\* class c + 1 derives from class c.
ChainOf(shape) ==
    [c \in DOMAIN shape |-> [members |-> MembersOf(c, shape[c].defaults),
                             compact_id |-> shape[c].compact_id]]

\* Class::members, Class::base and Class::all_data_members (the members of
\* the bases first, the root's before all others).
members(class_def, ast) == ast[class_def].members
base(class_def, ast) == class_def - 1
RECURSIVE all_data_members(_, _)
all_data_members(class_def, ast) ==
    IF class_def = NoClass THEN <<>>
    ELSE all_data_members(base(class_def, ast), ast) \o members(class_def, ast)

\* The value the field of a member holds in the instance that is encoded:
\* no two fields hold the same value.
FieldValue(member_identifier) == 10 * member_identifier[1] + member_identifier[2]

(***************************************************************************)
(* slicec-cs/src/class_visitor.rs: encode_and_decode, and the emitted      *)
(* IceEncode and IceDecode run against an encoder and a decoder.           *)
(***************************************************************************)
\* One emitted statement: what it calls, with which arguments, and the member
\* it encodes or decodes.
Statement(target, args, member) == [call |-> target, args |-> args, member |-> member]

\* encode_data_members and decode_data_members: one statement for each
\* member, in the order of declaration.
encode_data_members(member_seq) ==
    [i \in 1..Len(member_seq) |-> Statement("encoder.Encode", <<>>, member_seq[i].identifier)]
decode_data_members(member_seq) ==
    [i \in 1..Len(member_seq) |-> Statement("decoder.Decode", <<>>, member_seq[i].identifier)]

\* The encoder marking every slice as the last one.
encode_class_every_slice_last(class_def, ast) ==
    LET has_base_class == base(class_def, ast) # NoClass
    IN  <<Statement("encoder.IceStartSlice", <<"IceTypeId">>, <<>>)>>
        \o encode_data_members(members(class_def, ast))
        \o (IF has_base_class
            THEN <<Statement("encoder.IceEndSlice", <<"true">>, <<>>),
                   Statement("base.IceEncode", <<"encoder">>, <<>>)>>
            ELSE <<Statement("encoder.IceEndSlice", <<"true">>, <<>>)>>)

\* The body of the emitted IceEncode.
encode_class(class_def, ast) ==
    LET has_base_class == base(class_def, ast) # NoClass
        compact_id == -1
        start_slice_args == IF compact_id >= 0 THEN <<"IceTypeId", "_compactTypeId">>
                            ELSE <<"IceTypeId">>
    IN  <<Statement("encoder.IceStartSlice", start_slice_args, <<>>)>>
        \o encode_data_members(members(class_def, ast))
        \o (IF has_base_class
            THEN <<Statement("encoder.IceEndSlice", <<"false">>, <<>>),
                   Statement("base.IceEncode", <<"encoder">>, <<>>)>>
            ELSE <<Statement("encoder.IceEndSlice", <<"true">>, <<>>)>>)

\* The decoder that does not go on to the base class.
decode_class_without_base(class_def, ast) ==
    <<Statement("decoder.IceStartSlice", <<>>, <<>>)>>
    \o decode_data_members(members(class_def, ast))
    \o <<Statement("decoder.IceEndSlice", <<>>, <<>>)>>

\* The body of the emitted IceDecode.
decode_class(class_def, ast) ==
    LET has_base_class == base(class_def, ast) # NoClass
    IN  <<Statement("decoder.IceStartSlice", <<>>, <<>>)>>
        \o decode_data_members(members(class_def, ast))
        \o <<Statement("decoder.IceEndSlice", <<>>, <<>>)>>
        \o (IF has_base_class THEN <<Statement("base.IceDecode", <<"decoder">>, <<>>)>>
            ELSE <<>>)

encode_and_decode(class_def, ast) ==
    [IceEncode |-> encode_class(class_def, ast), IceDecode |-> decode_class(class_def, ast)]

\* What the encoder writes: the start of a slice, the value of a field, the
\* end of a slice.
SliceStart(type_id, compact_id) ==
    [kind |-> "start", type_id |-> type_id, compact_id |-> compact_id, value |-> 0,
     last |-> FALSE]
FieldWritten(value) ==
    [kind |-> "field", type_id |-> NoClass, compact_id |-> NoCompactId, value |-> value,
     last |-> FALSE]
SliceEnd(last) ==
    [kind |-> "end", type_id |-> NoClass, compact_id |-> NoCompactId, value |-> 0,
     last |-> last]

\* The emitted method that runs in `class`, at its statement `statement`;
\* slice: the type id of the slice the decoder is in.
Frame(method, class, statement, slice) ==
    [method |-> method, class |-> class, statement |-> statement, slice |-> slice]

\* The statement the running method has reached.
Body == returned.value[frame.class][frame.method]
AtStatement(target) ==
    /\ frame.statement <= Len(Body)
    /\ Body[frame.statement].call = target
Current == Body[frame.statement]
Advance == [frame EXCEPT !.statement = @ + 1]

\* What no step of the class visitor and of the emitted code changes.
classFixed == <<fileVars, opVars, call, diagnostics, parse_error, classes, cs_operation,
                member_list, grammarVars>>

InitSlicing ==
    /\ GrammarIdle
    /\ \E n \in 1..MaxLevels :
          \E shape \in [1..n -> ClassShapes({FALSE}, CompactIds)] : classes = ChainOf(shape)
    /\ wire = <<>>
    /\ frame = NoFrame
    /\ instance = <<>>
    /\ returned = NoReturned
    /\ pc = "encode_and_decode"
    /\ diagnostics = <<>>
    /\ FilesIdle
    /\ OperationIdle
    /\ LintIdle
    /\ EncodedResultIdle
    /\ StreamsIdle

\* The visitor emits IceEncode and IceDecode for every class of the chain.
EncodeAndDecode ==
    /\ pc = "encode_and_decode"
    /\ returned' = [of |-> "encode_and_decode",
                    value |-> [c \in DOMAIN classes |-> encode_and_decode(c, classes)]]
    /\ pc' = "emitted"
    /\ UNCHANGED <<classFixed, wire, frame, instance>>

\* An instance of the most derived class is encoded.
CallIceEncode ==
    /\ pc = "emitted"
    /\ frame' = Frame("IceEncode", Len(classes), 1, NoClass)
    /\ pc' = "IceEncode"
    /\ UNCHANGED <<classFixed, wire, instance, returned>>

\* encoder.IceStartSlice(IceTypeId[, _compactTypeId]); both name static
\* fields of the class the statement was emitted in.
EncoderStartSlice ==
    /\ pc = "IceEncode"
    /\ AtStatement("encoder.IceStartSlice")
    /\ wire' = Append(wire,
                      SliceStart(frame.class,
                                 IF Contains(Current.args, "_compactTypeId")
                                 THEN classes[frame.class].compact_id
                                 ELSE NoCompactId))
    /\ frame' = Advance
    /\ UNCHANGED <<classFixed, instance, returned, pc>>

EncodeMember ==
    /\ pc = "IceEncode"
    /\ AtStatement("encoder.Encode")
    /\ wire' = Append(wire, FieldWritten(FieldValue(Current.member)))
    /\ frame' = Advance
    /\ UNCHANGED <<classFixed, instance, returned, pc>>

EncoderEndSlice ==
    /\ pc = "IceEncode"
    /\ AtStatement("encoder.IceEndSlice")
    /\ wire' = Append(wire, SliceEnd(Current.args = <<"true">>))
    /\ frame' = Advance
    /\ UNCHANGED <<classFixed, instance, returned, pc>>

\* base.IceEncode(encoder): the method emitted for the base class runs.  The
\* call is the last statement of its body, so the caller has nothing left to
\* run when it returns.
BaseIceEncode ==
    /\ pc = "IceEncode"
    /\ AtStatement("base.IceEncode")
    /\ frame.statement = Len(Body)
    /\ frame' = Frame("IceEncode", base(frame.class, classes), 1, NoClass)
    /\ UNCHANGED <<classFixed, wire, instance, returned, pc>>

ReturnFromIceEncode ==
    /\ pc = "IceEncode"
    /\ frame.statement > Len(Body)
    /\ frame' = NoFrame
    /\ pc' = "encoded"
    /\ UNCHANGED <<classFixed, wire, instance, returned>>

\* The receiver creates an instance of the most derived class and decodes it
\* from what was written.
CallIceDecode ==
    /\ pc = "encoded"
    /\ frame' = Frame("IceDecode", Len(classes), 1, NoClass)
    /\ pc' = "IceDecode"
    /\ UNCHANGED <<classFixed, wire, instance, returned>>

\* A statement of IceDecode that finds `kind` next in the buffer consumes it;
\* one that finds anything else, or nothing, fails.
Reads(kind) == wire # <<>> /\ Head(wire).kind = kind
DecodeFails ==
    /\ pc' = "decode_error"
    /\ UNCHANGED <<wire, frame, instance>>

DecoderStartSlice ==
    /\ pc = "IceDecode"
    /\ AtStatement("decoder.IceStartSlice")
    /\ IF Reads("start")
       THEN /\ frame' = [Advance EXCEPT !.slice = Head(wire).type_id]
            /\ wire' = Tail(wire)
            /\ UNCHANGED <<instance, pc>>
       ELSE DecodeFails
    /\ UNCHANGED <<classFixed, returned>>

DecodeMember ==
    /\ pc = "IceDecode"
    /\ AtStatement("decoder.Decode")
    /\ IF Reads("field")
       THEN /\ instance' = Append(instance, [member |-> Current.member,
                                             value |-> Head(wire).value,
                                             slice |-> frame.slice])
            /\ wire' = Tail(wire)
            /\ frame' = Advance
            /\ UNCHANGED pc
       ELSE DecodeFails
    /\ UNCHANGED <<classFixed, returned>>

DecoderEndSlice ==
    /\ pc = "IceDecode"
    /\ AtStatement("decoder.IceEndSlice")
    /\ IF Reads("end")
       THEN /\ wire' = Tail(wire)
            /\ frame' = Advance
            /\ UNCHANGED <<instance, pc>>
       ELSE DecodeFails
    /\ UNCHANGED <<classFixed, returned>>

BaseIceDecode ==
    /\ pc = "IceDecode"
    /\ AtStatement("base.IceDecode")
    /\ frame.statement = Len(Body)
    /\ frame' = Frame("IceDecode", base(frame.class, classes), 1, frame.slice)
    /\ UNCHANGED <<classFixed, wire, instance, returned, pc>>

ReturnFromIceDecode ==
    /\ pc = "IceDecode"
    /\ frame.statement > Len(Body)
    /\ frame' = NoFrame
    /\ pc' = "decoded"
    /\ UNCHANGED <<classFixed, wire, instance, returned>>

NextSlicing ==
    \/ EncodeAndDecode
    \/ CallIceEncode
    \/ EncoderStartSlice
    \/ EncodeMember
    \/ EncoderEndSlice
    \/ BaseIceEncode
    \/ ReturnFromIceEncode
    \/ CallIceDecode
    \/ DecoderStartSlice
    \/ DecodeMember
    \/ DecoderEndSlice
    \/ BaseIceDecode
    \/ ReturnFromIceDecode

SpecSlicing == InitSlicing /\ [][NextSlicing]_vars

(***************************************************************************)
(* Claims about the emitted IceEncode and IceDecode                        *)
(***************************************************************************)
\* The slices of an instance of class_def, the most derived first: for each
\* class its type id, the values of its own members in the order of
\* declaration, and the end of the slice, marked last for the root only.
RECURSIVE SlicesFrom(_, _)
SlicesFrom(class_def, ast) ==
    IF class_def = NoClass THEN <<>>
    ELSE <<[kind |-> "start", type_id |-> class_def, value |-> 0, last |-> FALSE]>>
         \o [i \in 1..Len(ast[class_def].members) |->
                [kind |-> "field", type_id |-> NoClass,
                 value |-> FieldValue(<<class_def, i>>), last |-> FALSE]]
         \o <<[kind |-> "end", type_id |-> NoClass, value |-> 0,
               last |-> (class_def = 1)]>>
         \o SlicesFrom(class_def - 1, ast)

\* What was written, without the compact ids.
Written ==
    [i \in DOMAIN wire |-> [kind |-> wire[i].kind, type_id |-> wire[i].type_id,
                            value |-> wire[i].value, last |-> wire[i].last]]

SliceCount == Cardinality({ i \in DOMAIN wire : wire[i].kind = "start" })

\* C13: when IceEncode of an instance of a class with a chain of n classes has
\* returned, n slices were written, from the most derived class to the root;
\* each is a start of slice, the values of that class's own members in the
\* order of declaration and an end of slice; the end of slice of the root, and
\* of no other class, is marked as the last.
C13_OneSlicePerLevel ==
    pc = "encoded" =>
        /\ SliceCount = Len(classes)
        /\ Written = SlicesFrom(Len(classes), classes)

\* A chain of three classes, each with members, encoded.
C13_Witness ==
    /\ pc = "encoded"
    /\ Len(classes) = 3
    /\ \A c \in 1..3 : Len(classes[c].members) = 2
    /\ SliceCount = 3
    /\ wire[Len(wire)].last
    /\ wire[1].type_id = 3

\* The members of every class of the chain.
ChainMembers ==
    UNION { { <<c, i>> : i \in 1..Len(classes[c].members) } : c \in DOMAIN classes }

\* C14: IceDecode never finds anything but what its next statement reads, so
\* it reads the slices in the order IceEncode wrote them; when it has returned
\* everything written has been read, and every member of every class of the
\* chain was set once, to the value encoded for it, from the slice of its own
\* class.
C14_DecodeReadsWhatEncodeWrote ==
    /\ pc # "decode_error"
    /\ pc = "decoded" =>
          /\ wire = <<>>
          /\ Len(instance) = Cardinality(ChainMembers)
          /\ \A m \in ChainMembers :
                \E i \in DOMAIN instance :
                    /\ instance[i].member = m
                    /\ instance[i].value = FieldValue(m)
                    /\ instance[i].slice = m[1]

\* A chain of three classes whose middle class declares no member, decoded.
C14_Witness ==
    /\ pc = "decoded"
    /\ Len(classes) = 3
    /\ Len(classes[1].members) = 2
    /\ classes[2].members = <<>>
    /\ Len(classes[3].members) = 2
    /\ Len(instance) = 4

(***************************************************************************)
(* slicec-cs/src/class_visitor.rs: the constructors of an emitted class    *)
(***************************************************************************)
\* FunctionBuilder for a constructor: its parameters, the arguments it hands
\* to the constructor of the base class, and the fields its body assigns.
Constructor(parameters, base_arguments, body) ==
    [parameters |-> parameters, base_arguments |-> base_arguments, body |-> body]
NoConstructor == Constructor(<<>>, <<>>, <<>>)

\* The identifiers of the members, in their order.
Identifiers(member_seq) == [i \in DOMAIN member_seq |-> member_seq[i].identifier]

\* The members that are not default initialized, in their order.
RECURSIVE NotDefaultInitialized(_)
NotDefaultInitialized(member_seq) ==
    IF member_seq = <<>> THEN <<>>
    ELSE (IF Head(member_seq).is_default_initialized THEN <<>> ELSE <<Head(member_seq)>>)
         \o NotDefaultInitialized(Tail(member_seq))

\* The constructors with a one-shot constructor that also assigns the
\* members it hands to the base class.
primary_constructors_assigning_all(class_def, ast) ==
    LET all_members == all_data_members(class_def, ast)
        base_members == IF base(class_def, ast) # NoClass
                        THEN all_data_members(base(class_def, ast), ast) ELSE <<>>
        all_mandatory_members == NotDefaultInitialized(all_members)
    IN  IF all_members = <<>> THEN <<NoConstructor>>
        ELSE <<Constructor(Identifiers(all_members), Identifiers(base_members),
                           Identifiers(all_members))>>
             \o (IF Len(all_mandatory_members) < Len(all_members)
                 THEN <<Constructor(Identifiers(all_mandatory_members),
                                    Identifiers(NotDefaultInitialized(base_members)),
                                    Identifiers(NotDefaultInitialized(members(class_def, ast))))>>
                 ELSE <<>>)

\* The constructors with a second constructor whatever the members are.
primary_constructors_always_two(class_def, ast) ==
    LET all_members == all_data_members(class_def, ast)
        base_members == IF base(class_def, ast) # NoClass
                        THEN all_data_members(base(class_def, ast), ast) ELSE <<>>
        all_mandatory_members == NotDefaultInitialized(all_members)
    IN  IF all_members = <<>> THEN <<NoConstructor>>
        ELSE <<Constructor(Identifiers(all_members), Identifiers(base_members),
                           Identifiers(members(class_def, ast))),
               Constructor(Identifiers(all_mandatory_members),
                           Identifiers(NotDefaultInitialized(base_members)),
                           Identifiers(NotDefaultInitialized(members(class_def, ast))))>>

\* The constructors with a second constructor that hands the base class the
\* mandatory members of the whole chain.
primary_constructors_forwarding_all_mandatory(class_def, ast) ==
    LET all_members == all_data_members(class_def, ast)
        base_members == IF base(class_def, ast) # NoClass
                        THEN all_data_members(base(class_def, ast), ast) ELSE <<>>
        all_mandatory_members == NotDefaultInitialized(all_members)
    IN  IF all_members = <<>> THEN <<NoConstructor>>
        ELSE <<Constructor(Identifiers(all_members), Identifiers(base_members),
                           Identifiers(members(class_def, ast)))>>
             \o (IF Len(all_mandatory_members) < Len(all_members)
                 THEN <<Constructor(Identifiers(all_mandatory_members),
                                    Identifiers(all_mandatory_members),
                                    Identifiers(NotDefaultInitialized(members(class_def, ast))))>>
                 ELSE <<>>)

primary_constructors(class_def, ast) ==
    LET all_members == all_data_members(class_def, ast)
        base_members == IF base(class_def, ast) # NoClass
                        THEN all_data_members(base(class_def, ast), ast) ELSE <<>>
        all_mandatory_members == NotDefaultInitialized(all_members)
    IN  IF all_members = <<>> THEN <<NoConstructor>>
        ELSE <<Constructor(Identifiers(all_members), Identifiers(base_members),
                           Identifiers(members(class_def, ast)))>>
             \o (IF Len(all_mandatory_members) < Len(all_members)
                 THEN <<Constructor(Identifiers(all_mandatory_members),
                                    Identifiers(NotDefaultInitialized(base_members)),
                                    Identifiers(NotDefaultInitialized(members(class_def, ast))))>>
                 ELSE <<>>)

\* initialize_non_nullable_fields: the fields of the members handed in that
\* have no default.
initialize_non_nullable_fields(member_seq) == Identifiers(NotDefaultInitialized(member_seq))

\* The decode constructor initializing the members of the whole chain.
decode_constructor_of_all_members(class_def, ast) ==
    Constructor(<<"decoder">>,
                IF base(class_def, ast) # NoClass THEN <<"decoder">> ELSE <<>>,
                initialize_non_nullable_fields(all_data_members(class_def, ast)))

\* visit_class_start: the constructor used for decoding.
decode_constructor(class_def, ast) ==
    LET has_base_class == base(class_def, ast) # NoClass
    IN  Constructor(<<"decoder">>,
                    IF has_base_class THEN <<"decoder">> ELSE <<>>,
                    initialize_non_nullable_fields(members(class_def, ast)))

\* The class the visitor is at: the most derived class of the chain.
VisitedClass == Len(classes)

InitClass ==
    /\ GrammarIdle
    /\ \E n \in 1..MaxLevels :
          \E shape \in [1..n -> ClassShapes(BOOLEAN, {NoCompactId})] :
              classes = ChainOf(shape)
    /\ wire = <<>>
    /\ frame = NoFrame
    /\ instance = <<>>
    /\ returned = NoReturned
    /\ pc = "primary_constructors"
    /\ diagnostics = <<>>
    /\ FilesIdle
    /\ OperationIdle
    /\ LintIdle
    /\ EncodedResultIdle
    /\ StreamsIdle

\* visit_class_start adds the block of the primary constructors ...
PrimaryConstructors ==
    /\ pc = "primary_constructors"
    /\ returned' = [of |-> "visit_class_start",
                    value |-> [constructors |-> primary_constructors(VisitedClass, classes),
                               decode_constructor |-> NoConstructor]]
    /\ pc' = "decode_constructor"
    /\ UNCHANGED <<classFixed, wire, frame, instance>>

\* ... and the decode constructor.
DecodeConstructor ==
    /\ pc = "decode_constructor"
    /\ returned' = [returned EXCEPT
                      !.value.decode_constructor = decode_constructor(VisitedClass, classes)]
    /\ pc' = "visited"
    /\ UNCHANGED <<classFixed, wire, frame, instance>>

NextClass ==
    \/ PrimaryConstructors
    \/ DecodeConstructor

SpecClass == InitClass /\ [][NextClass]_vars

(***************************************************************************)
(* Claims about the constructors                                           *)
(***************************************************************************)
\* The members of the classes 1..level of the chain, the root's first, each
\* class's in the order of declaration.
RECURSIVE MembersUpTo(_)
MembersUpTo(level) ==
    IF level = 0 THEN <<>>
    ELSE MembersUpTo(level - 1)
         \o [i \in 1..Len(classes[level].members) |-> <<level, i>>]

HasDefault(member_identifier) ==
    classes[member_identifier[1]].members[member_identifier[2]].is_default_initialized

Elements(sequence) == { sequence[i] : i \in DOMAIN sequence }

constructors == returned.value.constructors

\* C15: a class with no member in its whole chain gets exactly one primary
\* constructor, without parameters; any other class gets the one-shot
\* constructor, and a second constructor exactly when a member of the chain
\* has a default initializer; no two primary constructors of a class have the
\* same parameter list.
C15_PrimaryConstructors ==
    pc = "visited" =>
        /\ MembersUpTo(VisitedClass) = <<>> =>
              /\ Len(constructors) = 1
              /\ constructors[1].parameters = <<>>
        /\ MembersUpTo(VisitedClass) # <<>> =>
              /\ constructors[1].parameters = MembersUpTo(VisitedClass)
              /\ Len(constructors) =
                    IF \E m \in Elements(MembersUpTo(VisitedClass)) : HasDefault(m) THEN 2 ELSE 1
        /\ \A i, j \in DOMAIN constructors :
              i # j => constructors[i].parameters # constructors[j].parameters

\* A class whose only default-initialized member is inherited: two
\* constructors.
C15_Witness ==
    /\ pc = "visited"
    /\ Len(classes) = 2
    /\ Len(classes[1].members) = 1
    /\ HasDefault(<<1, 1>>)
    /\ Len(classes[2].members) = 1
    /\ ~HasDefault(<<2, 1>>)
    /\ Len(constructors) = 2
    /\ constructors[2].parameters = << <<2, 1>> >>

\* C16: the one-shot constructor takes every member of the chain exactly
\* once, the members of the bases before those of the derived classes; the
\* inherited ones, and only they, are handed to the constructor of the base
\* class, and the own ones, and only they, are assigned to a field.
C16_OneShotConstructor ==
    (pc = "visited" /\ MembersUpTo(VisitedClass) # <<>>) =>
        LET one_shot == constructors[1]
        IN  /\ one_shot.parameters = MembersUpTo(VisitedClass)
            /\ \A i, j \in DOMAIN one_shot.parameters :
                  i # j => one_shot.parameters[i] # one_shot.parameters[j]
            /\ one_shot.base_arguments = MembersUpTo(VisitedClass - 1)
            /\ \A p \in Elements(one_shot.parameters) :
                  /\ p \in Elements(one_shot.base_arguments) <=> p[1] < VisitedClass
                  /\ p \in Elements(one_shot.body) <=> p[1] = VisitedClass
                  /\ ~(p \in Elements(one_shot.base_arguments) /\ p \in Elements(one_shot.body))
                  /\ p \in Elements(one_shot.base_arguments) \/ p \in Elements(one_shot.body)
            /\ Elements(one_shot.body) \subseteq Elements(one_shot.parameters)
            /\ Len(one_shot.body) = Len(classes[VisitedClass].members)

\* A chain of three classes with two members each: four parameters go to the
\* base class and two are assigned.
C16_Witness ==
    /\ pc = "visited"
    /\ Len(classes) = 3
    /\ \A c \in 1..3 : Len(classes[c].members) = 2
    /\ Len(constructors[1].parameters) = 6
    /\ Len(constructors[1].base_arguments) = 4
    /\ constructors[1].body = << <<3, 1>>, <<3, 2>> >>

\* C17: the decode constructor of a class has the decoder as its only
\* parameter, hands it to the constructor of the base class exactly when the
\* class has a base, and its body initializes the own members without a
\* default, and no other field.
C17_DecodeConstructor ==
    pc = "visited" =>
        LET emitted == returned.value.decode_constructor
        IN  /\ emitted.parameters = <<"decoder">>
            /\ emitted.base_arguments = (IF VisitedClass > 1 THEN <<"decoder">> ELSE <<>>)
            /\ Elements(emitted.body) =
                  { m \in Elements(MembersUpTo(VisitedClass)) : m[1] = VisitedClass /\ ~HasDefault(m) }
            /\ Len(emitted.body) = Cardinality(Elements(emitted.body))

\* A derived class with one own member with a default and one without, and
\* an inherited member without a default.
C17_Witness ==
    /\ pc = "visited"
    /\ Len(classes) = 2
    /\ Len(classes[1].members) = 1
    /\ ~HasDefault(<<1, 1>>)
    /\ Len(classes[2].members) = 2
    /\ HasDefault(<<2, 1>>)
    /\ ~HasDefault(<<2, 2>>)
    /\ returned.value.decode_constructor.body = << <<2, 2>> >>
    /\ returned.value.decode_constructor.base_arguments = <<"decoder">>

(***************************************************************************)
(* slicec-cs/src/encoded_result.rs                                         *)
(***************************************************************************)
\* The most return members of an operation with an encoded result.
MaxReturns == 2

\* The return members, each given by its parameter_name().
ReturnMembers == [parameter_name : {"a", "b", "dispatch"}]

\* The operations handed to encoded_result_struct.
CsOperations ==
    [has_encoded_result : BOOLEAN,
     returns_classes : BOOLEAN,
     format_type : {"FormatType.Default", "FormatType.Sliced"},
     return_members : SeqsUpTo(ReturnMembers, MaxReturns)]

parameter_name(member) == member.parameter_name
ParameterNames(member_seq) == [i \in DOMAIN member_seq |-> parameter_name(member_seq[i])]

\* escape_parameter_name: the name, made different from the name of every
\* parameter by an underscore at its end.
escape_parameter_name(parameters, name) ==
    IF Contains(ParameterNames(parameters), name) THEN <<name, "_">> ELSE <<name>>

\* FunctionBuilder::add_parameter: the type and the name (in pieces).
Parameter(type, name) == [type |-> type, name |-> name]

\* No struct: the empty code block.
NoStruct == [emitted |-> FALSE, parameters |-> <<>>, encoding |-> <<>>,
             create_payload_method |-> "", payload_args |-> <<>>]

\* The struct that creates the payload of no return value with the routine
\* for a single value.
encoded_result_struct_single_for_none(op) ==
    IF ~op.has_encoded_result THEN NoStruct
    ELSE
    LET parameters == op.return_members
        returns_classes == op.returns_classes
        dispatch_parameter == escape_parameter_name(parameters, "dispatch")
    IN  [emitted |-> TRUE,
         parameters |->
            (IF Len(parameters) = 1
             THEN <<Parameter("to_type_string", <<"returnValue">>)>>
             ELSE [i \in DOMAIN parameters |->
                      Parameter("to_type_string", <<parameter_name(parameters[i])>>)])
            \o (IF ~returns_classes
                THEN <<Parameter("IceRpc.Dispatch", dispatch_parameter)>> ELSE <<>>),
         encoding |-> IF returns_classes THEN <<"Ice11Encoding">>
                      ELSE dispatch_parameter \o <<".GetIceEncoding()">>,
         create_payload_method |->
            IF Len(parameters) <= 1 THEN "CreatePayloadFromSingleReturnValue"
            ELSE "CreatePayloadFromReturnValueTuple",
         payload_args |->
            << IF Len(parameters) = 1 THEN <<"returnValue">>
               ELSE <<"(">> \o Join(ParameterNames(parameters), ", ") \o <<")">>,
               <<"response_encode_action">> >>
            \o (IF returns_classes THEN << <<op.format_type>> >> ELSE <<>>)]

\* The struct that takes the encoding from the dispatch whatever is returned.
encoded_result_struct_never_forced(op) ==
    IF ~op.has_encoded_result THEN NoStruct
    ELSE
    LET parameters == op.return_members
        returns_classes == op.returns_classes
        dispatch_parameter == escape_parameter_name(parameters, "dispatch")
    IN  [emitted |-> TRUE,
         parameters |->
            (IF Len(parameters) = 1
             THEN <<Parameter("to_type_string", <<"returnValue">>)>>
             ELSE [i \in DOMAIN parameters |->
                      Parameter("to_type_string", <<parameter_name(parameters[i])>>)])
            \o <<Parameter("IceRpc.Dispatch", dispatch_parameter)>>,
         encoding |-> dispatch_parameter \o <<".GetIceEncoding()">>,
         create_payload_method |->
            IF Len(parameters) = 1 THEN "CreatePayloadFromSingleReturnValue"
            ELSE "CreatePayloadFromReturnValueTuple",
         payload_args |->
            << IF Len(parameters) = 1 THEN <<"returnValue">>
               ELSE <<"(">> \o Join(ParameterNames(parameters), ", ") \o <<")">>,
               <<"response_encode_action">> >>
            \o (IF returns_classes THEN << <<op.format_type>> >> ELSE <<>>)]

\* The parameters of the constructor, the encoding, the method and the
\* arguments of the create_payload expression of the emitted struct.
encoded_result_struct(op) ==
    IF ~op.has_encoded_result THEN NoStruct
    ELSE
    LET parameters == op.return_members
        returns_classes == op.returns_classes
        dispatch_parameter == escape_parameter_name(parameters, "dispatch")
    IN  [emitted |-> TRUE,
         parameters |->
            (IF Len(parameters) = 1
             THEN <<Parameter("to_type_string", <<"returnValue">>)>>
             ELSE [i \in DOMAIN parameters |->
                      Parameter("to_type_string", <<parameter_name(parameters[i])>>)])
            \o (IF ~returns_classes
                THEN <<Parameter("IceRpc.Dispatch", dispatch_parameter)>> ELSE <<>>),
         encoding |-> IF returns_classes THEN <<"Ice11Encoding">>
                      ELSE dispatch_parameter \o <<".GetIceEncoding()">>,
         create_payload_method |->
            IF Len(parameters) = 1 THEN "CreatePayloadFromSingleReturnValue"
            ELSE "CreatePayloadFromReturnValueTuple",
         payload_args |->
            << IF Len(parameters) = 1 THEN <<"returnValue">>
               ELSE <<"(">> \o Join(ParameterNames(parameters), ", ") \o <<")">>,
               <<"response_encode_action">> >>
            \o (IF returns_classes THEN << <<op.format_type>> >> ELSE <<>>)]

InitEncodedResult ==
    /\ GrammarIdle
    /\ cs_operation \in CsOperations
    /\ returned = NoReturned
    /\ pc = "encoded_result_struct"
    /\ diagnostics = <<>>
    /\ FilesIdle
    /\ OperationIdle
    /\ LintIdle
    /\ ClassIdle
    /\ StreamsIdle

EncodedResultStruct ==
    /\ pc = "encoded_result_struct"
    /\ returned' = [of |-> "encoded_result_struct",
                    value |-> encoded_result_struct(cs_operation)]
    /\ pc' = "returned"
    /\ UNCHANGED <<classFixed, wire, frame, instance>>

NextEncodedResult == EncodedResultStruct

SpecEncodedResult == InitEncodedResult /\ [][NextEncodedResult]_vars

(***************************************************************************)
(* Claims about encoded_result_struct                                      *)
(***************************************************************************)
EmittedStruct == pc = "returned" /\ returned.value.emitted

\* The names of the constructor's parameters for the return value (all but
\* the dispatch), and its dispatch parameters.
RECURSIVE OfType(_, _)
OfType(parameters, is_dispatch) ==
    IF parameters = <<>> THEN <<>>
    ELSE (IF (Head(parameters).type = "IceRpc.Dispatch") = is_dispatch
          THEN <<Head(parameters).name>> ELSE <<>>)
         \o OfType(Tail(parameters), is_dispatch)
ReturnValueParameters == OfType(returned.value.parameters, FALSE)
DispatchParameters == OfType(returned.value.parameters, TRUE)

\* The pieces of the names, one after the other, with ", " between two names.
RECURSIVE Listed(_)
Listed(names) ==
    IF names = <<>> THEN <<>>
    ELSE IF Len(names) = 1 THEN names[1]
    ELSE names[1] \o <<", ">> \o Listed(Tail(names))

\* C18: the constructor of the emitted struct creates the payload with the
\* routine for a single return value exactly when the operation has exactly
\* one return member, and with the routine for a tuple otherwise (also for no
\* return member); the value it passes names the constructor's own
\* return-value parameters in their order: returnValue for one member, the
\* tuple of the parameter names otherwise.
C18_PayloadRoutineAndValue ==
    EmittedStruct =>
        /\ Len(ReturnValueParameters) = Len(cs_operation.return_members)
        /\ IF Len(cs_operation.return_members) = 1
           THEN /\ returned.value.create_payload_method = "CreatePayloadFromSingleReturnValue"
                /\ ReturnValueParameters = << <<"returnValue">> >>
                /\ returned.value.payload_args[1] = <<"returnValue">>
           ELSE /\ returned.value.create_payload_method = "CreatePayloadFromReturnValueTuple"
                /\ \A i \in DOMAIN ReturnValueParameters :
                      ReturnValueParameters[i] = <<cs_operation.return_members[i].parameter_name>>
                /\ returned.value.payload_args[1] =
                      <<"(">> \o Listed(ReturnValueParameters) \o <<")">>

\* The struct of an operation without return members: the tuple routine, with
\* the empty tuple.
C18_Witness ==
    /\ EmittedStruct
    /\ cs_operation.return_members = <<>>
    /\ returned.value.create_payload_method = "CreatePayloadFromReturnValueTuple"
    /\ returned.value.payload_args[1] = <<"(", ")">>

MaxStreamMembers == 3

\* The identifier of the member at each place of a list.
MemberIdentifiers == <<"s", "s2", "s3", "s4", "s5">>

\* The lists of members: each member is streamed or not.
MemberLists ==
    { [i \in DOMAIN streamed |-> [identifier |-> MemberIdentifiers[i],
                                  is_streamed |-> streamed[i]]] :
      streamed \in SeqsUpTo(BOOLEAN, MaxStreamMembers) }

StreamedMembersMustBeLast(list, i, parameter_identifier) ==
    [severity |-> "Error", code |-> "StreamedMembersMustBeLast",
     parameter_identifier |-> parameter_identifier, span |-> Span(list, i, i)]

MultipleStreamedMembers(list, length) ==
    [severity |-> "Error", code |-> "MultipleStreamedMembers",
     parameter_identifier |-> "", span |-> Span(list, 1, length)]

\* Every member but the last that is streamed is reported.
RECURSIVE StreamedBeforeLast(_, _, _, _)
StreamedBeforeLast(i, list, member_seq, diags) ==
    IF i >= Len(member_seq) THEN diags
    ELSE StreamedBeforeLast(i + 1, list, member_seq,
            IF member_seq[i].is_streamed
            THEN Append(diags, StreamedMembersMustBeLast(list, i, member_seq[i].identifier))
            ELSE diags)

StreamedCount(member_seq) ==
    Cardinality({ i \in DOMAIN member_seq : member_seq[i].is_streamed })

\* The checks reporting only the members out of place.
validate_stream_placement_only(list, member_seq, diags) ==
    StreamedBeforeLast(1, list, member_seq, diags)

\* The checks of one list: the streamed members out of place, then more than
\* one streamed member.
validate_streamed_members(list, member_seq, diags) ==
    LET placed == StreamedBeforeLast(1, list, member_seq, diags)
    IN  IF StreamedCount(member_seq) > 1
        THEN Append(placed, MultipleStreamedMembers(list, Len(member_seq)))
        ELSE placed

InitStreams ==
    /\ GrammarIdle
    /\ member_list \in [parameters : MemberLists, return_members : MemberLists]
    /\ diagnostics = <<>>
    /\ pc = "parameters"
    /\ returned = NoReturned
    /\ FilesIdle
    /\ OperationIdle
    /\ LintIdle
    /\ ClassIdle
    /\ EncodedResultIdle

ValidateParameters ==
    /\ pc = "parameters"
    /\ diagnostics' = validate_streamed_members("parameters", member_list.parameters,
                                                diagnostics)
    /\ pc' = "return_members"
    /\ UNCHANGED <<fileVars, opVars, call, genVars>>

ValidateReturnMembers ==
    /\ pc = "return_members"
    /\ diagnostics' = validate_streamed_members("return_members", member_list.return_members,
                                                diagnostics)
    /\ pc' = "validated"
    /\ UNCHANGED <<fileVars, opVars, call, genVars>>

NextStreams ==
    \/ ValidateParameters
    \/ ValidateReturnMembers

SpecStreams == InitStreams /\ [][NextStreams]_vars

(***************************************************************************)
(* Claims about the placement of streamed members                          *)
(***************************************************************************)
\* The diagnostics with the code reported for the list, and those among them
\* that are at the member i.
StreamDiagnostics(code, list) ==
    { k \in DOMAIN diagnostics :
        /\ diagnostics[k].code = code
        /\ diagnostics[k].span.of = list }
MustBeLastAt(list, i) ==
    { k \in StreamDiagnostics("StreamedMembersMustBeLast", list) :
        /\ diagnostics[k].span.start = i
        /\ diagnostics[k].parameter_identifier = member_list[list][i].identifier }

\* C20: in the parameters and in the return members alike, every streamed
\* member that is not the last of its list gets exactly one
\* StreamedMembersMustBeLast error naming it, and no other member gets one; a
\* list with more than one streamed member gets, besides, exactly one
\* MultipleStreamedMembers error; a list whose only streamed member is its
\* last gets neither.
C20_StreamPlacement ==
    pc = "validated" =>
        \A list \in {"parameters", "return_members"} :
            LET member_seq == member_list[list]
            IN  /\ \A i \in DOMAIN member_seq :
                      Cardinality(MustBeLastAt(list, i)) =
                          IF member_seq[i].is_streamed /\ i < Len(member_seq) THEN 1 ELSE 0
                /\ Cardinality(StreamDiagnostics("StreamedMembersMustBeLast", list)) =
                      Cardinality({ i \in DOMAIN member_seq :
                                      member_seq[i].is_streamed /\ i < Len(member_seq) })
                /\ Cardinality(StreamDiagnostics("MultipleStreamedMembers", list)) =
                      IF StreamedCount(member_seq) > 1 THEN 1 ELSE 0
                /\ (StreamedCount(member_seq) = 1 /\ member_seq[Len(member_seq)].is_streamed)
                      => \A k \in DOMAIN diagnostics : diagnostics[k].span.of # list

\* op(s: stream varuint62, s2: stream string): the error for s, then
\* MultipleStreamedMembers, and nothing for the return members, whose only
\* streamed member is the last.
C20_Witness ==
    /\ pc = "validated"
    /\ Len(member_list.parameters) = 2
    /\ member_list.parameters[1].is_streamed
    /\ member_list.parameters[2].is_streamed
    /\ Len(member_list.return_members) = 2
    /\ ~member_list.return_members[1].is_streamed
    /\ member_list.return_members[2].is_streamed
    /\ Len(diagnostics) = 2
    /\ diagnostics[1].code = "StreamedMembersMustBeLast"
    /\ diagnostics[1].parameter_identifier = "s"
    /\ diagnostics[2].code = "MultipleStreamedMembers"

(***************************************************************************)
(* grammar/attributes/deprecated.rs                                        *)
(***************************************************************************)
\* The most arguments of an attribute.
MaxArgs == 3

\* Unparsed { directive, args }
Directives == {"deprecated", "compress"}
Arguments == {"use g", "old", ""}
UnparsedAttributes == [directive : Directives, args : SeqsUpTo(Arguments, MaxArgs)]

\* Deprecated::directive()
DeprecatedDirective == "deprecated"

TooManyArguments(directive) ==
    [severity |-> "Error", code |-> "TooManyArguments", expected |-> directive,
     span |-> Span("attribute", 1, 1)]

\* check_that_at_most_one_argument_was_provided
check_that_at_most_one_argument_was_provided(args, directive, diags) ==
    IF Len(args) > 1 THEN Append(diags, TooManyArguments(directive)) ELSE diags

\* Option<String>: None is the empty sequence, Some(s) is <<s>>.
None == <<>>
Some(value) == <<value>>

\* parse_from taking the last argument for the reason.
parse_from_last_argument(attribute, diags) ==
    [diags |-> check_that_at_most_one_argument_was_provided(
                   attribute.args, DeprecatedDirective, diags),
     value |-> [reason |-> IF attribute.args = <<>> THEN None
                           ELSE Some(attribute.args[Len(attribute.args)])]]

\* Deprecated::parse_from after its debug assertion: what it pushes and the
\* Deprecated it returns.
parse_from(attribute, diags) ==
    [diags |-> check_that_at_most_one_argument_was_provided(
                   attribute.args, DeprecatedDirective, diags),
     value |-> [reason |-> IF attribute.args = <<>> THEN None
                           ELSE Some(Head(attribute.args))]]

InitDeprecated ==
    /\ unparsed \in UnparsedAttributes
    /\ custom_type = NoCustomType
    /\ collected = <<>>
    /\ diagnostics = <<>>
    /\ returned = NoReturned
    /\ pc = "parse_from"
    /\ FilesIdle
    /\ OperationIdle
    /\ LintIdle
    /\ ClassIdle
    /\ EncodedResultIdle
    /\ StreamsIdle

deprecatedFixed == <<fileVars, opVars, call, parse_error, classes, wire, frame, instance,
                     cs_operation, member_list, unparsed, custom_type, collected>>

\* A call of parse_from.  debug_assert_eq! is compiled in with debug
\* assertions only; it panics when the directive is not that of Deprecated.
ParseFrom ==
    /\ pc = "parse_from"
    /\ \E debug_assertions \in BOOLEAN :
          IF debug_assertions /\ unparsed.directive # DeprecatedDirective
          THEN /\ pc' = "panicked"
               /\ UNCHANGED <<diagnostics, returned>>
          ELSE LET result == parse_from(unparsed, diagnostics)
               IN  /\ diagnostics' = result.diags
                   /\ returned' = [of |-> "parse_from", value |-> result.value]
                   /\ pc' = "parsed"
    /\ UNCHANGED deprecatedFixed

NextDeprecated == ParseFrom

SpecDeprecated == InitDeprecated /\ [][NextDeprecated]_vars

\* C21: parse_from, handed an attribute with the directive of Deprecated,
\* does not panic whatever the number of arguments; it reports no diagnostic
\* for zero or one argument and one for two or more, and the Deprecated it
\* returns has the first argument as its reason when there is one and no
\* reason otherwise.
C21_AtMostOneArgument ==
    (unparsed.directive = DeprecatedDirective /\ pc # "parse_from") =>
        /\ pc = "parsed"
        /\ Len(unparsed.args) <= 1 => diagnostics = <<>>
        /\ Len(unparsed.args) >= 2 =>
              /\ Len(diagnostics) = 1
              /\ diagnostics[1].code = "TooManyArguments"
        /\ unparsed.args = <<>> => returned.value.reason = <<>>
        /\ unparsed.args # <<>> => returned.value.reason = <<unparsed.args[1]>>

\* deprecated("old", "use g"): a diagnostic, and the reason is "old".
C21_Witness ==
    /\ pc = "parsed"
    /\ unparsed = [directive |-> "deprecated", args |-> <<"old", "use g">>]
    /\ Len(diagnostics) = 1
    /\ returned.value.reason = <<"old">>

(***************************************************************************)
(* grammar/elements/custom_type.rs                                         *)
(***************************************************************************)
\* The most calls of the Type functions on one custom type.
MaxCalls == 3

\* A custom type as the parser creates it: supported_encodings is None.
CustomTypes == [identifier : {"MyCustom", "Uri", "Guid"}, supported_encodings : {None}]

\* What the validation pass stores for a custom type: Slice2 and nothing else.
computed_supported_encodings == {"Slice2"}

type_string(self) == self.identifier
fixed_wire_size(self) == None
is_class_type(self) == FALSE

\* A tag format for a custom type.
tag_format_of_a_class(self) == Some("Class")

tag_format(self) == None

\* supported_encodings with a default for a field that is still None.
supported_encodings_or_default(self) ==
    IF self.supported_encodings = None THEN Returned({"Slice1", "Slice2"})
    ELSE Returned(self.supported_encodings[1])

\* self.supported_encodings.clone().unwrap()
supported_encodings(self) ==
    IF self.supported_encodings = None THEN Panicked
    ELSE Returned(self.supported_encodings[1])

InitCustomType ==
    /\ custom_type \in CustomTypes
    /\ unparsed = NoUnparsed
    /\ collected = <<>>
    /\ diagnostics = <<>>
    /\ returned = NoReturned
    /\ pc = "custom_type"
    /\ FilesIdle
    /\ OperationIdle
    /\ LintIdle
    /\ ClassIdle
    /\ EncodedResultIdle
    /\ StreamsIdle

customTypeFixed == <<fileVars, opVars, call, parse_error, classes, wire, frame, instance,
                     cs_operation, member_list, unparsed, collected, diagnostics>>

\* The number of calls made so far.
Calls == IF returned = NoReturned THEN 0 ELSE returned.calls

\* The call returns the value.
Returns(function, value) ==
    /\ pc = "custom_type"
    /\ Calls < MaxCalls
    /\ returned' = [of |-> function, value |-> value, calls |-> Calls + 1]

\* The validation pass fills in the field, once.
PatchSupportedEncodings ==
    /\ pc = "custom_type"
    /\ custom_type.supported_encodings = None
    /\ custom_type' = [custom_type EXCEPT
                         !.supported_encodings = Some(computed_supported_encodings)]
    /\ UNCHANGED <<customTypeFixed, returned, pc>>

TypeString ==
    /\ Returns("type_string", type_string(custom_type))
    /\ UNCHANGED <<customTypeFixed, custom_type, pc>>

FixedWireSize ==
    /\ Returns("fixed_wire_size", fixed_wire_size(custom_type))
    /\ UNCHANGED <<customTypeFixed, custom_type, pc>>

IsClassType ==
    /\ Returns("is_class_type", is_class_type(custom_type))
    /\ UNCHANGED <<customTypeFixed, custom_type, pc>>

TagFormat ==
    /\ Returns("tag_format", tag_format(custom_type))
    /\ UNCHANGED <<customTypeFixed, custom_type, pc>>

\* supported_encodings returns the stored set, or the thread panics.
SupportedEncodings ==
    /\ pc = "custom_type"
    /\ Calls < MaxCalls
    /\ LET result == supported_encodings(custom_type)
       IN  IF result.panicked
           THEN /\ pc' = "panicked"
                /\ UNCHANGED returned
           ELSE /\ returned' = [of |-> "supported_encodings", value |-> result.value,
                                calls |-> Calls + 1]
                /\ UNCHANGED pc
    /\ UNCHANGED <<customTypeFixed, custom_type>>

NextCustomType ==
    \/ PatchSupportedEncodings
    \/ TypeString
    \/ FixedWireSize
    \/ IsClassType
    \/ TagFormat
    \/ SupportedEncodings

SpecCustomType == InitCustomType /\ [][NextCustomType]_vars

\* C22: whatever supported_encodings returns for a custom type is the set
\* holding Slice2 alone; tag_format returns None, is_class_type false and
\* fixed_wire_size None.
C22_CustomTypeIsSlice2Only ==
    /\ returned.of = "supported_encodings" => returned.value = {"Slice2"}
    /\ returned.of = "tag_format" => returned.value = <<>>
    /\ returned.of = "is_class_type" => returned.value = FALSE
    /\ returned.of = "fixed_wire_size" => returned.value = <<>>

\* supported_encodings has returned for a custom type whose field is filled.
C22_Witness ==
    /\ returned.of = "supported_encodings"
    /\ custom_type.supported_encodings = <<{"Slice2"}>>
    /\ returned.value = {"Slice2"}

\* C23: a call of supported_encodings on a custom type whose field is still
\* None panics and returns nothing; a call on one whose field is filled
\* returns the stored set; no call changes the field, and a field that is
\* filled is never changed.
C23_FailFastThenStable ==
    [][ /\ (pc' = "panicked" \/ (returned' # returned /\ returned'.of = "supported_encodings"))
           => /\ custom_type' = custom_type
              /\ custom_type.supported_encodings = <<>> =>
                    (pc' = "panicked" /\ returned' = returned)
              /\ custom_type.supported_encodings # <<>> =>
                    (pc' = pc /\ returned'.value = custom_type.supported_encodings[1])
        /\ custom_type.supported_encodings # <<>> => custom_type' = custom_type ]_vars

\* The third call on the custom type was one of supported_encodings, on a
\* filled field.
C23_Witness ==
    /\ returned.of = "supported_encodings"
    /\ returned.calls = 3
    /\ custom_type.supported_encodings # <<>>

(***************************************************************************)
(* Claims about the compact id of a class                                  *)
(***************************************************************************)
\* C24: the IceEncode emitted for a class declared with a compact id hands
\* that compact id to IceStartSlice next to the type id, so the slice written
\* for the class carries the declared value; the IceEncode of a class without
\* a compact id hands over the type id alone.
C24_Original ==
    /\ returned.of = "encode_and_decode" =>
          \A c \in DOMAIN classes :
              returned.value[c].IceEncode[1].args =
                  IF classes[c].compact_id # NoCompactId
                  THEN <<"IceTypeId", "_compactTypeId">>
                  ELSE <<"IceTypeId">>
    /\ \A i \in DOMAIN wire :
          wire[i].kind = "start" => wire[i].compact_id = classes[wire[i].type_id].compact_id

(***************************************************************************)
(* validate_operation called with a collector that already holds           *)
(* diagnostics                                                             *)
(***************************************************************************)
\* What an earlier validation left in the collector: an error and a lint of
\* the kinds validate_operation itself reports.
EarlierDiagnostics ==
    << Diagnostic("Error", "ExceptionSpecificationNotSupported", "", "",
                  Span("exception_specification", 1, 1), <<>>),
       IncorrectDocComment("param: no parameter with that name", "q",
                           Span("param_tag", 1, 1), <<>>) >>

InitOpAppend ==
    /\ operation \in Operations
    /\ base_exception = DeclaredBase
    /\ first_run = [completed |-> FALSE, operation |-> operation, diagnostics |-> <<>>]
    /\ collected = EarlierDiagnostics
    /\ diagnostics = collected
    /\ pc = "exception_specifications"
    /\ FilesIdle
    /\ call = NoCall
    /\ LintIdle /\ ClassIdle /\ EncodedResultIdle /\ StreamsIdle
    /\ unparsed = NoUnparsed
    /\ custom_type = NoCustomType
    /\ returned = NoReturned

NextOpAppend ==
    \/ ExceptionSpecifications
    \/ ValidateParamTags
    \/ ValidateReturnsTags
    \/ ValidateThrowsTags

SpecOpAppend == InitOpAppend /\ [][NextOpAppend]_vars

\* What the call has appended to the collector so far.
Appended == SubSeq(diagnostics, Len(collected) + 1, Len(diagnostics))

\* The place of a diagnostic in the order of the checks of validate_operation.
GroupOf(d) ==
    CASE d.span.of = "exception_specification" -> 0
      [] d.span.of = "param_tag" -> 1
      [] d.span.of \in {"returns_tag", "returns_tag+message"} -> 2
      [] d.span.of \in {"throws_tag", "throws_tag+message"} -> 3
      [] OTHER -> 4

\* C25: validate_operation only appends to the collector: what the collector
\* held before the call stays, unchanged and in the same order, as a prefix;
\* the appended diagnostics come in the order exception-specification error,
\* 'param' lints, 'returns' lints, 'throws' lints, each group in the order of
\* its tags; an operation without a doc comment gets at most one diagnostic.
C25_AppendOnlyInOrder ==
    /\ Len(diagnostics) >= Len(collected)
    /\ SubSeq(diagnostics, 1, Len(collected)) = collected
    /\ \A i \in DOMAIN Appended :
          /\ GroupOf(Appended[i]) \in 0..3
          /\ GroupOf(Appended[i]) = 0 <=>
                (Appended[i].severity = "Error"
                    /\ Appended[i].code = "ExceptionSpecificationNotSupported")
          /\ GroupOf(Appended[i]) # 0 =>
                (Appended[i].severity = "Lint" /\ Appended[i].code = "IncorrectDocComment")
    /\ \A i, j \in DOMAIN Appended :
          i < j =>
              \/ GroupOf(Appended[i]) < GroupOf(Appended[j])
              \/ /\ GroupOf(Appended[i]) = GroupOf(Appended[j])
                 /\ Appended[i].span.start < Appended[j].span.start
    /\ ~operation.comment.present => Len(Appended) <= 1

\* The call has ended after appending the error and lints of two groups to a
\* collector that was not empty.
C25_Witness ==
    /\ pc = "validated"
    /\ collected # <<>>
    /\ Len(Appended) = 3
    /\ GroupOf(Appended[1]) = 0
    /\ GroupOf(Appended[2]) = 1
    /\ GroupOf(Appended[3]) = 3

(***************************************************************************)
(* Claims about the arguments handed to the base constructor               *)
(***************************************************************************)
\* The primary constructors emitted for the base class of the visited class.
base_constructors == primary_constructors(base(VisitedClass, classes), classes)

\* The members of a sequence of member identifiers that have no default.
RECURSIVE WithoutDefault(_)
WithoutDefault(member_identifiers) ==
    IF member_identifiers = <<>> THEN <<>>
    ELSE (IF HasDefault(Head(member_identifiers)) THEN <<>> ELSE <<Head(member_identifiers)>>)
         \o WithoutDefault(Tail(member_identifiers))

\* C26: for a derived class, the arguments every primary constructor hands to
\* the base constructor are exactly the parameters of some primary
\* constructor emitted for the base class: the one-shot constructor hands
\* over all the members of the base's chain, the second constructor those of
\* them without a default initializer.
C26_BaseArgumentsMatchABaseConstructor ==
    (returned.of = "visit_class_start" /\ base(VisitedClass, classes) # NoClass) =>
        /\ \A k \in DOMAIN constructors :
              \E b \in DOMAIN base_constructors :
                  constructors[k].base_arguments = base_constructors[b].parameters
        /\ constructors[1].base_arguments = MembersUpTo(VisitedClass - 1)
        /\ Len(constructors) = 2 =>
              constructors[2].base_arguments = WithoutDefault(MembersUpTo(VisitedClass - 1))

\* A derived class was visited whose base chain has members with and without
\* a default, so that its two constructors call different base constructors.
C26_Witness ==
    /\ returned.of = "visit_class_start"
    /\ base(VisitedClass, classes) # NoClass
    /\ Len(constructors) = 2
    /\ constructors[2].base_arguments # <<>>
    /\ constructors[2].base_arguments # constructors[1].base_arguments
    /\ constructors[2].base_arguments = base_constructors[2].parameters

(***************************************************************************)
(* Claims about the spelling of a file supplied more than once             *)
(***************************************************************************)
\* The files found, in the order resolve_files_from inserts them: the
\* reference files, then the source files.
ReferenceOccurrences == find_slice_files(options.references, TRUE).paths
SourceOccurrences == find_slice_files(options.sources, FALSE).paths

\* The spelling under which the file c occurs first among the occurrences.
FirstSpelling(c, occurrences) ==
    LET first == CHOOSE i \in DOMAIN occurrences :
                    /\ occurrences[i].canonicalized_path = c
                    /\ \A j \in 1..(i - 1) : occurrences[j].canonicalized_path # c
    IN  occurrences[first].path

\* The occurrence repeats an earlier one of its own list: a reference an
\* earlier reference, a source an earlier source.
Repeats(i, occurrences, references_found) ==
    \E j \in 1..(i - 1) :
        /\ occurrences[j].canonicalized_path = occurrences[i].canonicalized_path
        /\ i > references_found => j > references_found

\* The spellings of the repeating occurrences among the first n, in order.
RECURSIVE RepeatedSpellings(_, _, _)
RepeatedSpellings(n, occurrences, references_found) ==
    IF n = 0 THEN <<>>
    ELSE RepeatedSpellings(n - 1, occurrences, references_found)
         \o (IF Repeats(n, occurrences, references_found)
             THEN <<occurrences[n].path>> ELSE <<>>)

\* The paths the DuplicateFile lints among the first n diagnostics carry.
RECURSIVE DuplicateFilePaths(_)
DuplicateFilePaths(n) ==
    IF n = 0 THEN <<>>
    ELSE DuplicateFilePaths(n - 1)
         \o (IF diagnostics[n].code = "DuplicateFile" THEN <<diagnostics[n].path>> ELSE <<>>)

\* C27: when a file is supplied under several spellings, its unit carries the
\* spelling of the first occurrence processed (references before sources,
\* also when a source has made the file a source), and every DuplicateFile
\* lint carries the spelling of the later occurrence it reports.
C27_FirstSpellingKept ==
    pc = "done" =>
        LET reference_files == ReferenceOccurrences
            references_found == Len(reference_files)
            occurrences == reference_files \o SourceOccurrences
        IN  /\ \A u \in DOMAIN files :
                  files[u].path = FirstSpelling(canonicalize(files[u].path), occurrences)
            /\ DuplicateFilePaths(Len(diagnostics))
                  = RepeatedSpellings(Len(occurrences), occurrences, references_found)

\* A reference under one spelling, then twice a source under another: the
\* unit is a source under the reference's spelling, the lint carries the
\* spelling of the second source.
C27_Witness ==
    /\ pc = "done"
    /\ options.references = << <<"a.slice">> >>
    /\ options.sources = << <<"d", "..", "a.slice">>, <<"d", "..", "a.slice">> >>
    /\ files = << [path |-> <<"a.slice">>, is_source |-> TRUE] >>
    /\ diagnostics = << DuplicateFile(<<"d", "..", "a.slice">>) >>

====
